---- MODULE Spec2Model ----
(***************************************************************************)
(* Model of the build-plan pipeline of canonical/operator-workflows:       *)
(*   src/src/plan.ts              Plan Generator (and utils.normalizePath) *)
(*   src/src/plan-integration.ts  GetPlan (findWorkflowRunId, getPlan)     *)
(*   src/src/publish.ts           Publish (getImages, getFiles, run)       *)
(*                                                                         *)
(* Strings are sequences of tokens.  A token is one character ("a", ":",   *)
(* "_", "/", ".") or a fixed word that the characters of the model's       *)
(* alphabet cannot spell ("build", "plan", "t1", "tests", "undefined").    *)
(***************************************************************************)
EXTENDS Integers, Sequences, FiniteSets, TLC

----------------------------------------------------------------------------
(* Bounds *)

MaxFiles == 2

----------------------------------------------------------------------------
(* String helpers: the JavaScript string operations the code uses *)

RECURSIVE Concat(_)
Concat(ss) == IF ss = <<>> THEN <<>> ELSE Head(ss) \o Concat(Tail(ss))

StartsWith(s, p) == Len(p) <= Len(s) /\ SubSeq(s, 1, Len(p)) = p

EndsWith(s, p) ==
  Len(p) <= Len(s) /\ SubSeq(s, Len(s) - Len(p) + 1, Len(s)) = p

Includes(s, p) ==
  \E i \in 1..(Len(s) + 1) :
    i + Len(p) - 1 <= Len(s) /\ SubSeq(s, i, i + Len(p) - 1) = p

SetToSeq(S) ==
  CHOOSE f \in [1..Cardinality(S) -> S] :
    \A i, j \in 1..Cardinality(S) : i # j => f[i] # f[j]

(* the value `undefined`, and its text inside a template literal *)
Undefined == <<"#undefined">>

ToText(v) == IF v = Undefined THEN <<"undefined">> ELSE v

US == <<"_", "_">>

----------------------------------------------------------------------------
(* plan.ts: sanitizeArtifactName and normalizePath *)

SanitizedChars ==
  {"\t", "\n", ":", "/", "\\", "\"", "<", ">", "|", "*", "?"}

(* a replacement that maps ":" to "/", itself a replaced character *)
sanitizeArtifactName_ColonToSlash(name) ==
  [i \in 1..Len(name) |->
     IF name[i] = ":" THEN "/"
     ELSE IF name[i] \in SanitizedChars THEN "-" ELSE name[i]]

sanitizeArtifactName(name) ==
  [i \in 1..Len(name) |-> IF name[i] \in SanitizedChars THEN "-" ELSE name[i]]

(* String.prototype.split('/') *)
RECURSIVE SplitSlash(_, _)
SplitSlash(s, cur) ==
  IF s = <<>> THEN <<cur>>
  ELSE IF Head(s) = "/" THEN <<cur>> \o SplitSlash(Tail(s), <<>>)
  ELSE SplitSlash(Tail(s), Append(cur, Head(s)))

RECURSIVE JoinSlash(_)
JoinSlash(segs) ==
  IF segs = <<>> THEN <<>>
  ELSE IF Len(segs) = 1 THEN Head(segs)
  ELSE Head(segs) \o <<"/">> \o JoinSlash(Tail(segs))

(* path.normalize's segment walk: drops "" and ".", resolves ".." *)
RECURSIVE NormalizeSegments(_, _, _)
NormalizeSegments(segs, res, allowAboveRoot) ==
  IF segs = <<>> THEN res
  ELSE LET seg == Head(segs)
           rest == Tail(segs)
       IN IF seg = <<>> \/ seg = <<".">>
          THEN NormalizeSegments(rest, res, allowAboveRoot)
          ELSE IF seg = <<".", ".">>
          THEN IF res # <<>> /\ res[Len(res)] # <<".", ".">>
               THEN NormalizeSegments(rest, SubSeq(res, 1, Len(res) - 1),
                                      allowAboveRoot)
               ELSE IF allowAboveRoot
               THEN NormalizeSegments(rest, Append(res, seg), allowAboveRoot)
               ELSE NormalizeSegments(rest, res, allowAboveRoot)
          ELSE NormalizeSegments(rest, Append(res, seg), allowAboveRoot)

(* path.normalize (POSIX) *)
PathNormalize(p) ==
  IF p = <<>> THEN <<".">>
  ELSE LET isAbsolute == p[1] = "/"
           trailingSeparator == p[Len(p)] = "/"
           body == JoinSlash(NormalizeSegments(SplitSlash(p, <<>>), <<>>,
                                               ~isAbsolute))
       IN IF body = <<>>
          THEN IF isAbsolute THEN <<"/">>
               ELSE IF trailingSeparator THEN <<".", "/">> ELSE <<".">>
          ELSE (IF isAbsolute THEN <<"/">> ELSE <<>>) \o body
               \o (IF trailingSeparator THEN <<"/">> ELSE <<>>)

(* .replace(/\/+$/, '') *)
RECURSIVE StripTrailingSlashes(_)
StripTrailingSlashes(p) ==
  IF p # <<>> /\ p[Len(p)] = "/"
  THEN StripTrailingSlashes(SubSeq(p, 1, Len(p) - 1))
  ELSE p

normalizePath(p) == StripTrailingSlashes(PathNormalize(p))

(* path.join(a, b): joins the non-empty arguments and normalizes *)
PathJoin(a, b) ==
  IF a = <<>> /\ b = <<>> THEN <<".">>
  ELSE IF a = <<>> THEN PathNormalize(b)
  ELSE IF b = <<>> THEN PathNormalize(a)
  ELSE PathNormalize(a \o <<"/">> \o b)

(* path.dirname of a normalized path *)
PathDirname(p) ==
  LET segs == SplitSlash(p, <<>>)
  IN IF Len(segs) = 1 THEN <<".">>
     ELSE LET d == JoinSlash(SubSeq(segs, 1, Len(segs) - 1))
          IN IF d = <<>> THEN <<"/">> ELSE d

----------------------------------------------------------------------------
(* The inputs of the Plan Generator *)

(* a key of a YAML document that may be missing: the `resources` mapping,
   in Object.entries order *)
NoResources == [present |-> FALSE, items |-> <<>>]

Resources(items) == [present |-> TRUE, items |-> items]

FileResource(n, desc) ==
  [rname |-> n, type |-> "file", filename |-> <<"data.bin">>,
   description |-> desc]

LocalResource(n) == FileResource(n, <<" ", "(local)", " ", "x">>)

NoFilenameResource(n) ==
  [rname |-> n, type |-> "file", filename |-> Undefined,
   description |-> Undefined]

ImageResource(n) ==
  [rname |-> n, type |-> "oci-image", filename |-> Undefined,
   description |-> Undefined]

(* the companion metadata.yaml of a charmcraft.yaml *)
NoMetadata == [exists |-> FALSE, name |-> Undefined, resources |-> NoResources]

Metadata(n, r) == [exists |-> TRUE, name |-> n, resources |-> r]

Dirs == {<<>>, <<"tests">>, <<"sub">>}

CharmVariants ==
  { [name |-> <<"a">>, resources |-> NoResources, meta |-> NoMetadata],
    [name |-> <<"a">>,
     resources |-> Resources(<<FileResource(<<"d">>, <<"x">>),
                               ImageResource(<<"i">>)>>),
     meta |-> NoMetadata],
    [name |-> <<"a">>,
     resources |-> Resources(<<LocalResource(<<"d">>),
                               NoFilenameResource(<<"e">>)>>),
     meta |-> NoMetadata],
    [name |-> <<"a">>,
     resources |-> Resources(<<FileResource(<<"d">>, <<"x">>)>>),
     meta |-> Metadata(Undefined,
                       Resources(<<FileResource(<<"e">>, <<"(local)">>),
                                   FileResource(<<"g">>, <<"x">>)>>))],
    [name |-> Undefined, resources |-> NoResources,
     meta |-> Metadata(<<"a", "_">>,
                       Resources(<<FileResource(<<"_", "d">>, Undefined)>>))],
    [name |-> Undefined, resources |-> NoResources,
     meta |-> Metadata(Undefined, NoResources)],
    [name |-> Undefined, resources |-> NoResources, meta |-> NoMetadata] }

RockNames == {Undefined, <<"a">>, <<"a", ":">>}

DockerNames == {<<"a">>, <<"a", ":">>, <<"a", "-">>}

(* the descriptor files a working directory can hold; `dir` is the file's
   directory relative to the working directory *)
CharmcraftFiles ==
  { [kind |-> "charmcraft", dir |-> d, base |-> <<>>, name |-> v.name,
     resources |-> v.resources, meta |-> v.meta] :
    d \in Dirs, v \in CharmVariants }

RockcraftFiles ==
  { [kind |-> "rockcraft", dir |-> d, base |-> <<>>, name |-> n,
     resources |-> NoResources, meta |-> NoMetadata] :
    d \in Dirs, n \in RockNames }

DockerFiles ==
  { [kind |-> "dockerfile", dir |-> d, base |-> n, name |-> Undefined,
     resources |-> NoResources, meta |-> NoMetadata] :
    d \in Dirs, n \in DockerNames }

DescriptorFiles == CharmcraftFiles \cup RockcraftFiles \cup DockerFiles

SamePath(f, g) == f.kind = g.kind /\ f.dir = g.dir /\ f.base = g.base

RECURSIVE SubsetsUpTo(_, _)
SubsetsUpTo(U, n) ==
  IF n = 0 THEN {{}}
  ELSE LET prev == SubsetsUpTo(U, n - 1)
       IN prev \cup {s \cup {x} : s \in prev, x \in U}

(* a file system: no two files at the same path *)
FileSystems(U, n) ==
  { fs \in SubsetsUpTo(U, n) :
      \A f, g \in fs : SamePath(f, g) => f = g }

Identifiers == {<<>>, <<"x">>, <<"x", ":">>, <<"_", "_">>}

WorkDirs == {<<".">>, <<".", "/">>, <<"c", "/">>, <<"/">>}

UploadImages == {<<>>, <<"artifact">>, <<"registry">>, <<"bogus">>}

EventNames == {"pull_request", "push"}

Owners == {"owner", "other"}

GenIds == {<<"t1">>, <<"t2">>}

----------------------------------------------------------------------------

VARIABLES
  (* Plan Generator (plan.ts) *)
  fsFiles,          \* the descriptor files below the working directory
  identifierIn,     \* input `identifier`
  workingDirIn,     \* input `working-directory`
  uploadImageIn,    \* input `upload-image`
  eventName,        \* github.context.eventName
  headOwner,        \* payload.pull_request.head.repo.owner.login
  pgPc,             \* position of run()
  id,               \* the generated id, with the identifier appended
  workingDir,       \* normalizePath(working-directory)
  imageOutputType,
  buildPlans,       \* the entries planBuild has collected so far
  artifacts,        \* the artifact store of this workflow run
  planOutput,       \* output `plan`
  pgError,          \* the message given to core.setFailed
  (* GetPlan.getPlan (plan-integration.ts) *)
  gpIdentifier,     \* input `identifier`
  gpWorkingDir,     \* input `working-directory`
  gpPc,             \* position of getPlan
  gpQueue,          \* the filtered, sorted artifacts still to examine
  gpPlan,           \* the plan getPlan returned
  (* GetPlan.findWorkflowRunId (plan-integration.ts) *)
  fwRunIdIn,        \* input `workflow-run-id`
  fwTree,           \* tree id of the commit github.context.sha
  fwWorkflowStatus, \* status of the getWorkflow response
  fwRuns,           \* the workflow runs listWorkflowRuns lists, in order
  fwPerPage,        \* runs per page of the listing
  fwBadPage,        \* the page answered with a status other than 200, or 0
  fwPc,             \* position of findWorkflowRunId
  fwPage,           \* the page the iterator yields next
  fwResult,         \* the run id returned
  (* Publish (publish.ts) *)
  pbWorkingDir,     \* input `working-directory`
  pbMapping,        \* input `resource-mapping`, parsed
  pbBuild,          \* input `plan`: its build entries
  pbHasCharmcraft,  \* <working-directory>/charmcraft.yaml exists
  pbHasCharmSub,    \* <working-directory>/charm/charmcraft.yaml exists
  pbExpanded,       \* `resources` of charmcraft expand-extensions
  pbMetadataYaml,   \* metadata.yaml of the charm directory
  pbManifests,      \* manifest.json of the artifact of each output name
  pbPc,             \* position of run()
  pbIdx,            \* index of the loop in progress
  pbDockerLogin,    \* getImages' dockerLogin
  pbImages,         \* the Map getImages fills
  pbFiles,          \* the Map getFiles fills
  pbCharm,          \* what getCharms returned
  pbFinalCharms,    \* finalCharms
  pbCmds,           \* the commands executed so far, in order
  pbError           \* the error thrown, "" when none

pgVars == <<fsFiles, identifierIn, workingDirIn, uploadImageIn, eventName,
            headOwner, pgPc, id, workingDir, imageOutputType, buildPlans,
            artifacts, planOutput, pgError>>

gpVars == <<gpIdentifier, gpWorkingDir, gpPc, gpQueue, gpPlan>>

fwVars == <<fwRunIdIn, fwTree, fwWorkflowStatus, fwRuns, fwPerPage, fwBadPage,
            fwPc, fwPage, fwResult>>

pbInputs == <<pbWorkingDir, pbMapping, pbBuild, pbHasCharmcraft, pbHasCharmSub,
              pbExpanded, pbMetadataYaml, pbManifests>>

pbVars == <<pbInputs, pbPc, pbIdx, pbDockerLogin, pbImages, pbFiles, pbCharm,
            pbFinalCharms, pbCmds, pbError>>

VARIABLES
  (* sanitizeArtifactName applied twice (plan.ts) *)
  saName,           \* the name given to sanitizeArtifactName
  saOnce,           \* sanitizeArtifactName(saName)
  saTwice,          \* sanitizeArtifactName(saOnce)
  saPc              \* how often the function has been applied

saVars == <<saName, saOnce, saTwice, saPc>>

VARIABLES
  (* generateRockCacheKey called by two builds (build.ts) *)
  ckSourceFile,     \* plan.source_file
  ckArch,           \* process.arch
  ckHash,           \* glob.hashFiles of the source directory
  ckDate1,          \* `new Date()` of the first build, in days
  ckDate2,          \* `new Date()` of the second build, in days
  ckKey1,           \* the key of the first build
  ckKey2,           \* the key of the second build
  ckPc              \* the number of keys generated

ckVars == <<ckSourceFile, ckArch, ckHash, ckDate1, ckDate2, ckKey1, ckKey2,
            ckPc>>

VARIABLES
  (* Builder (build.ts) *)
  bdPlan,           \* input `build-plan`: one build entry
  bdPaas,           \* the source directory holds a charmcraft.yaml
  bdCacheHit,       \* the rock cache holds a manifest under the rock's key
  bdInstallMode,    \* which of rockcraft-repository/ref and channel is set
  bdProduced,       \* the number of files the pack or build script leaves
  bdPc,             \* position of run()
  bdQueue,          \* the steps of the rockcraft installation still to run
  bdLog,            \* shell, cache and artifact calls made so far, in order
  bdManifest,       \* manifest.json in the source directory
  bdUploads,        \* the uploadArtifact calls: name, manifest and files
  bdError           \* the message given to core.setFailed, "" when none

bdInputs == <<bdPlan, bdPaas, bdCacheHit, bdInstallMode, bdProduced>>

bdVars == <<bdInputs, bdPc, bdQueue, bdLog, bdManifest, bdUploads, bdError>>

VARIABLES
  (* Scan Planner (plan-scan.ts) *)
  scVariant,        \* which run(): "ignores" calls ConcatIgnores,
                    \* "common" adds common_ignores to every scan
  scPlan,           \* input `plan`: its build entries
  scManifests,      \* manifest.json of the artifact of each output name
  scCommonFile,     \* content of common_trivyignores.txt, Undefined if none
  scTrivy,          \* the .trivyignore files: directory -> content
  scDirs,           \* the directories that exist
  scPc,             \* position of run()
  scIdx,            \* index of the build entry of the loop
  scCommon,         \* commonIgnorePatterns of run()
  scScans,          \* the local `scans`
  scOutput,         \* output `scans`
  scError           \* the message given to core.setFailed, "" when none

scInputs == <<scVariant, scPlan, scManifests, scCommonFile>>

scVars == <<scInputs, scTrivy, scDirs, scPc, scIdx, scCommon, scScans,
            scOutput, scError>>

VARIABLES
  (* integration helper (plan-integration.ts) *)
  igPlan,           \* input `plan`: its build entries
  igManifests,      \* manifest.json of the artifact of each output name
  igJobs,           \* the jobs of the workflow run attempt: name -> state
  igPc,             \* position of run()
  igIdx,            \* index of the build entry of the loop
  igFile,           \* index of the manifest file the copy loop is at
  igDownloads,      \* the downloadArtifact calls made: [output, ok]
  igArgs,           \* the local `args`
  igOutput,         \* output `args`
  igError,          \* the message given to core.setFailed, "" when none
  wbPc,             \* position of the floating waitBuild()
  igCrashed         \* the process ended on an unhandled rejection

igInputs == <<igPlan, igManifests>>

igVars == <<igInputs, igJobs, igPc, igIdx, igFile, igDownloads, igArgs, igOutput, igError, wbPc, igCrashed>>

VARIABLES
  (* the Plan Generator runs of one workflow run *)
  rsRuns            \* the runs that uploaded a plan: [gen, identifier, wd]

rsVars == <<rsRuns>>

VARIABLES
  (* two builds of one rock and the cache between them (build.ts) *)
  rcPlan,           \* the rock's build entry
  rcPaas,           \* isPaasCharmRock(plan)
  rcDay,            \* the day `new Date()` gives now
  rcDir,            \* the files of the source directory of the running job
  rcCache,          \* the keys saved in the cache
  rcPc,             \* position of the running build
  rcBuild,          \* 1 for the first build, 2 for the second
  rcKeys,           \* the keys generated so far: [op, key, day]
  rcHit             \* restoreRock's result in the second build

rcInputs == <<rcPlan, rcPaas>>

rcVars == <<rcInputs, rcDay, rcDir, rcCache, rcPc, rcBuild, rcKeys, rcHit>>

VARIABLES
  (* one run of the integration test workflow (integration_test.yaml) *)
  itChanged,        \* the files `git diff --name-only` lists
  itMatrix,         \* the number of entries of plan.build
  itWithImages,     \* whether the manifests of the builds list anything to scan
  itCancelled,      \* whether the run has been cancelled
  itResult,         \* the result of each job, "" while it has not concluded
  itHasCodeChanges, \* needs.plan.outputs.has-code-changes
  itScans,          \* needs.plan-scan.outputs.scans
  itBuildJobs       \* the result of each job of the build matrix

itInputs == <<itChanged, itMatrix, itWithImages>>

itVars == <<itInputs, itCancelled, itResult, itHasCodeChanges, itScans, itBuildJobs>>

VARIABLES
  (* one run of the publish workflow *)
  pwForcePublish,   \* inputs.force-publish
  pwPublishDocs,    \* inputs.publish-docs
  pwPublishLibs,    \* inputs.publish-libs
  pwChanged,        \* the files `git diff --name-only` lists
  pwResult,         \* the result of each job, "" while it has not concluded
  pwStdout,         \* what the `Find changes` step printed
  pwHasCodeChanges  \* needs.plan.outputs.has-code-changes

pwInputs == <<pwForcePublish, pwPublishDocs, pwPublishLibs, pwChanged>>

pwVars == <<pwInputs, pwResult, pwStdout, pwHasCodeChanges>>

(* the variables of the helpers modelled after the Publisher *)
helperVars ==
  <<saVars, ckVars, bdVars, scVars, igVars, rsVars, rcVars, itVars, pwVars>>

(* what the actions of one helper leave alone *)
exceptSanitize ==
  <<pgVars, gpVars, fwVars, pbVars, ckVars, bdVars, scVars, igVars,
    rsVars, rcVars, itVars, pwVars>>

exceptCacheKey ==
  <<pgVars, gpVars, fwVars, pbVars, saVars, bdVars, scVars, igVars,
    rsVars, rcVars, itVars, pwVars>>

exceptBuilder ==
  <<pgVars, gpVars, fwVars, pbVars, saVars, ckVars, scVars, igVars,
    rsVars, rcVars, itVars, pwVars>>

exceptScan ==
  <<pgVars, gpVars, fwVars, pbVars, saVars, ckVars, bdVars, igVars,
    rsVars, rcVars, itVars, pwVars>>

exceptIntegration ==
  <<pgVars, gpVars, fwVars, pbVars, saVars, ckVars, bdVars, scVars,
    rsVars, rcVars, itVars, pwVars>>

exceptRockCache ==
  <<pgVars, gpVars, fwVars, pbVars, saVars, ckVars, bdVars, scVars, igVars,
    rsVars, itVars, pwVars>>

exceptIntegrationWorkflow ==
  <<pgVars, gpVars, fwVars, pbVars, saVars, ckVars, bdVars, scVars, igVars,
    rsVars, rcVars, pwVars>>

exceptPublishWorkflow ==
  <<pgVars, gpVars, fwVars, pbVars, saVars, ckVars, bdVars, scVars, igVars,
    rsVars, rcVars, itVars>>

vars == <<pgVars, gpVars, fwVars, pbVars, helperVars>>

RepoOwner == "owner"

NoPlan == [working_directory |-> Undefined, build |-> <<>>]

----------------------------------------------------------------------------
(* plan.ts *)

(* a planner for which no event comes from a fork *)
fromFork_Never == FALSE

fromFork ==
  IF eventName # "pull_request" THEN FALSE ELSE RepoOwner # headOwner

FileName(f) ==
  CASE f.kind = "charmcraft" -> <<"charmcraft.yaml">>
    [] f.kind = "rockcraft" -> <<"rockcraft.yaml">>
    [] f.kind = "dockerfile" -> f.base \o <<".Dockerfile">>

(* path.relative(workingDir, file) *)
RelativePath(f) ==
  IF f.dir = <<>> THEN FileName(f) ELSE f.dir \o <<"/">> \o FileName(f)

(* a glob without '**': the working directory itself only *)
Glob_TopLevel(kind) ==
  SetToSeq({f \in fsFiles : f.kind = kind /\ f.dir = <<>>})

(* glob.create(path.join(workingDir, '**', pattern)).glob() *)
Glob(kind) == SetToSeq({f \in fsFiles : f.kind = kind})

InTests(f) == StartsWith(PathNormalize(RelativePath(f)), <<"tests", "/">>)

(* a planner that keeps every charmcraft.yaml *)
CharmcraftFilter_KeepAll(files) == files

(* allCharmcraftFiles.filter(...) *)
CharmcraftFilter(files) == SelectSeq(files, LAMBDA f : ~InTests(f))

SourceFile(f) == PathJoin(workingDir, RelativePath(f))

(* the name a charm descriptor resolves to; Undefined when the code throws *)
CharmName(f) ==
  IF f.name # Undefined THEN f.name
  ELSE IF f.meta.exists /\ f.meta.name # Undefined THEN f.meta.name
  ELSE Undefined

Output(parts) == sanitizeArtifactName(Concat(parts))

CharmEntry(f) ==
  [type |-> "charm", name |-> CharmName(f), source_file |-> SourceFile(f),
   source_directory |-> PathDirname(SourceFile(f)),
   build_target |-> Undefined, output_type |-> "file",
   output |-> Output(<<id, US, <<"build">>, US, <<"output">>, US,
                       <<"charm">>, US, CharmName(f)>>)]

RockEntry(f) ==
  [type |-> "rock", name |-> f.name, source_file |-> SourceFile(f),
   source_directory |-> PathDirname(SourceFile(f)),
   build_target |-> Undefined, output_type |-> imageOutputType,
   output |-> Output(<<id, US, <<"build">>, US, <<"output">>, US,
                       <<"rock">>, US, ToText(f.name)>>)]

(* path.basename(file).replace(/.Dockerfile$/, '') *)
DockerName(f) ==
  LET b == FileName(f)
  IN IF b[Len(b)] = ".Dockerfile" THEN SubSeq(b, 1, Len(b) - 1) ELSE b

DockerEntry(f) ==
  [type |-> "docker-image", name |-> DockerName(f),
   source_file |-> SourceFile(f),
   source_directory |-> PathDirname(SourceFile(f)),
   build_target |-> Undefined, output_type |-> imageOutputType,
   output |-> Output(<<id, US, <<"build">>, US, <<"output">>, US,
                       <<"docker-image">>, US, DockerName(f)>>)]

(* String.prototype.trim *)
RECURSIVE TrimStart(_)
TrimStart(s) ==
  IF s # <<>> /\ Head(s) \in {" ", "\t", "\n"} THEN TrimStart(Tail(s)) ELSE s

RECURSIVE TrimEnd(_)
TrimEnd(s) ==
  IF s # <<>> /\ s[Len(s)] \in {" ", "\t", "\n"}
  THEN TrimEnd(SubSeq(s, 1, Len(s) - 1)) ELSE s

Trim(s) == TrimEnd(TrimStart(s))

(* a planner that treats no resource as local *)
IsLocal_Never(r) == FALSE

(* resource.description?.trim().startsWith('(local)') *)
IsLocal(r) ==
  r.description # Undefined /\ StartsWith(Trim(r.description), <<"(local)">>)

(* the `resources` the file planner reads: metadata.yaml's win *)
CharmResources(f) ==
  IF f.meta.exists /\ f.meta.resources.present THEN f.meta.resources.items
  ELSE IF f.resources.present THEN f.resources.items
  ELSE <<>>

FileEntry(f, r) ==
  [type |-> "file", name |-> r.rname,
   source_file |-> <<"build-">> \o r.rname \o <<".sh">>,
   source_directory |-> PathDirname(SourceFile(f)),
   build_target |-> r.filename, output_type |-> "file",
   output |-> Output(<<id, US, <<"build">>, US, <<"output">>, US,
                       <<"file">>, US, CharmName(f), US, r.rname>>)]

FileEntries(f) ==
  LET keep == SelectSeq(CharmResources(f),
                LAMBDA r : r.type = "file" /\ r.filename # Undefined
                           /\ ~IsLocal(r))
  IN [i \in 1..Len(keep) |-> FileEntry(f, keep[i])]

Throws(files) == \E i \in 1..Len(files) : CharmName(files[i]) = Undefined

(* the error of the first descriptor that map() fails on: readFileSync of a
   missing metadata.yaml, or the explicit throw *)
ThrownBy(files) ==
  LET i == CHOOSE k \in 1..Len(files) :
             /\ CharmName(files[k]) = Undefined
             /\ \A j \in 1..(k - 1) : CharmName(files[j]) # Undefined
  IN IF files[i].meta.exists THEN "unknown charm name" ELSE "ENOENT"

planBuildCharm ==
  LET files == CharmcraftFilter(Glob("charmcraft"))
  IN [i \in 1..Len(files) |-> CharmEntry(files[i])]

planBuildRock ==
  LET files == Glob("rockcraft")
  IN [i \in 1..Len(files) |-> RockEntry(files[i])]

planBuildDockerImage ==
  LET files == Glob("dockerfile")
  IN [i \in 1..Len(files) |-> DockerEntry(files[i])]

(* charmcraftFiles.flatMap(...) *)
RECURSIVE FlatMapFileEntries(_)
FlatMapFileEntries(files) ==
  IF files = <<>> THEN <<>>
  ELSE FileEntries(Head(files)) \o FlatMapFileEntries(Tail(files))

planBuildFileResource ==
  FlatMapFileEntries(CharmcraftFilter(Glob("charmcraft")))

(* run(): the id, the identifier check and the upload-image switch *)
PlanStart ==
  /\ pgPc = "start"
  /\ \E g \in GenIds :
       id' = IF identifierIn # <<>> THEN g \o US \o identifierIn ELSE g
  /\ IF Includes(identifierIn, US)
     THEN /\ pgPc' = "failed"
          /\ pgError' = "identifier can not contain __"
          /\ UNCHANGED <<workingDir, imageOutputType>>
     ELSE /\ workingDir' = normalizePath(workingDirIn)
          /\ IF uploadImageIn = <<>>
             THEN /\ imageOutputType' = IF fromFork THEN "file" ELSE "registry"
                  /\ pgPc' = "charm"
                  /\ UNCHANGED pgError
             ELSE IF uploadImageIn = <<"artifact">>
             THEN /\ imageOutputType' = "file"
                  /\ pgPc' = "charm"
                  /\ UNCHANGED pgError
             ELSE IF uploadImageIn = <<"registry">>
             THEN /\ imageOutputType' = "registry"
                  /\ pgPc' = "charm"
                  /\ UNCHANGED pgError
             ELSE /\ pgPc' = "failed"
                  /\ pgError' = "unknown upload-image input"
                  /\ UNCHANGED imageOutputType
  /\ UNCHANGED <<fsFiles, identifierIn, workingDirIn, uploadImageIn,
                 eventName, headOwner, buildPlans, artifacts, planOutput>>
  /\ UNCHANGED <<gpVars, fwVars, pbVars, helperVars>>

(* planBuild: ...(await planBuildCharm(workingDir, id)) *)
PlanBuildCharm ==
  /\ pgPc = "charm"
  /\ IF Throws(CharmcraftFilter(Glob("charmcraft")))
     THEN /\ pgPc' = "failed"
          /\ pgError' = ThrownBy(CharmcraftFilter(Glob("charmcraft")))
          /\ UNCHANGED buildPlans
     ELSE /\ buildPlans' = buildPlans \o planBuildCharm
          /\ pgPc' = "rock"
          /\ UNCHANGED pgError
  /\ UNCHANGED <<fsFiles, identifierIn, workingDirIn, uploadImageIn,
                 eventName, headOwner, id, workingDir, imageOutputType,
                 artifacts, planOutput>>
  /\ UNCHANGED <<gpVars, fwVars, pbVars, helperVars>>

(* planBuild: ...(await planBuildRock(workingDir, id, imageOutputType)) *)
PlanBuildRock ==
  /\ pgPc = "rock"
  /\ buildPlans' = buildPlans \o planBuildRock
  /\ pgPc' = "docker"
  /\ UNCHANGED <<fsFiles, identifierIn, workingDirIn, uploadImageIn,
                 eventName, headOwner, id, workingDir, imageOutputType,
                 artifacts, planOutput, pgError>>
  /\ UNCHANGED <<gpVars, fwVars, pbVars, helperVars>>

(* planBuild: ...(await planBuildDockerImage(...)) *)
PlanBuildDockerImage ==
  /\ pgPc = "docker"
  /\ buildPlans' = buildPlans \o planBuildDockerImage
  /\ pgPc' = "file"
  /\ UNCHANGED <<fsFiles, identifierIn, workingDirIn, uploadImageIn,
                 eventName, headOwner, id, workingDir, imageOutputType,
                 artifacts, planOutput, pgError>>
  /\ UNCHANGED <<gpVars, fwVars, pbVars, helperVars>>

(* planBuild: ...(await planBuildFileResource(workingDir, id)) *)
PlanBuildFileResource ==
  /\ pgPc = "file"
  /\ IF Throws(CharmcraftFilter(Glob("charmcraft")))
     THEN /\ pgPc' = "failed"
          /\ pgError' = "unknown charm name"
          /\ UNCHANGED buildPlans
     ELSE /\ buildPlans' = buildPlans \o planBuildFileResource
          /\ pgPc' = "upload"
          /\ UNCHANGED pgError
  /\ UNCHANGED <<fsFiles, identifierIn, workingDirIn, uploadImageIn,
                 eventName, headOwner, id, workingDir, imageOutputType,
                 artifacts, planOutput>>
  /\ UNCHANGED <<gpVars, fwVars, pbVars, helperVars>>

(* run(): artifact.uploadArtifact(sanitizeArtifactName(`${id}__plan`), ...)
   and core.setOutput('plan', planJson) *)
PlanUpload ==
  /\ pgPc = "upload"
  /\ LET plan == [working_directory |-> workingDir, build |-> buildPlans]
     IN /\ artifacts' = artifacts \cup
             {[name |-> sanitizeArtifactName(id \o US \o <<"plan">>),
               plan |-> plan]}
        /\ planOutput' = plan
  /\ pgPc' = "done"
  /\ UNCHANGED <<fsFiles, identifierIn, workingDirIn, uploadImageIn,
                 eventName, headOwner, id, workingDir, imageOutputType,
                 buildPlans, pgError>>
  /\ UNCHANGED <<gpVars, fwVars, pbVars, helperVars>>

InitPlanState ==
  /\ pgPc = "start"
  /\ id = <<>>
  /\ workingDir = <<>>
  /\ imageOutputType = "registry"
  /\ buildPlans = <<>>
  /\ artifacts = {}
  /\ planOutput = NoPlan
  /\ pgError = ""

----------------------------------------------------------------------------
(* plan-integration.ts: GetPlan.getPlan *)

(* UTF-16 order of the tokens, for the comparison of artifact names *)
Code(c) ==
  CASE c = "-" -> 45000
    [] c = "." -> 46000
    [] c = "/" -> 47000
    [] c = ":" -> 58000
    [] c = "_" -> 95000
    [] c = "a" -> 97000
    [] c = "c" -> 99000
    [] c = "plan" -> 112000
    [] c = "t1" -> 116001
    [] c = "t2" -> 116002
    [] c = "x" -> 120000
    [] OTHER -> 0

(* a < b on strings *)
RECURSIVE StrLess(_, _)
StrLess(a, b) ==
  IF b = <<>> THEN FALSE
  ELSE IF a = <<>> THEN TRUE
  ELSE IF Head(a) = Head(b) THEN StrLess(Tail(a), Tail(b))
  ELSE Code(Head(a)) < Code(Head(b))

(* no sort: the artifacts stay in the order of the listing *)
InsertByName_Append(a, sorted) == Append(sorted, a)

(* the comparator of getPlan's sort: greater names first *)
RECURSIVE InsertByName(_, _)
InsertByName(a, sorted) ==
  IF sorted = <<>> THEN <<a>>
  ELSE IF StrLess(a.name, Head(sorted).name)
  THEN <<Head(sorted)>> \o InsertByName(a, Tail(sorted))
  ELSE <<a>> \o sorted

RECURSIVE SortByNameDesc(_)
SortByNameDesc(arts) ==
  IF arts = <<>> THEN <<>>
  ELSE InsertByName(Head(arts), SortByNameDesc(Tail(arts)))

(* `${this.identifier ? '__' : ''}${this.identifier}__plan` *)
PlanSuffix(identifier) ==
  (IF identifier # <<>> THEN US ELSE <<>>) \o identifier \o US \o <<"plan">>

PlanArtifactFilter(arts, identifier) ==
  SelectSeq(arts, LAMBDA a : EndsWith(a.name, PlanSuffix(identifier)))

(* the working-directory test of getPlan *)
PlanMatches(plan, wd) ==
  \/ plan.working_directory = <<".">>
  \/ normalizePath(wd) = normalizePath(plan.working_directory)
  \/ StartsWith(normalizePath(wd),
                normalizePath(plan.working_directory) \o <<"/">>)

(* listWorkflowRunArtifacts, .filter(...).sort(...) *)
GetPlanList ==
  /\ gpPc = "idle"
  /\ pgPc \in {"done", "failed"}
  /\ gpQueue' = SortByNameDesc(
                  PlanArtifactFilter(SetToSeq(artifacts), gpIdentifier))
  /\ gpPc' = "iterate"
  /\ UNCHANGED <<helperVars, pgVars, fwVars, pbVars, gpIdentifier, gpWorkingDir, gpPlan>>

(* one turn of `for (const artifact of artifacts)`: download, parse, test *)
GetPlanExamine ==
  /\ gpPc = "iterate"
  /\ gpQueue # <<>>
  /\ IF PlanMatches(Head(gpQueue).plan, gpWorkingDir)
     THEN /\ gpPlan' = Head(gpQueue).plan
          /\ gpPc' = "returned"
          /\ UNCHANGED gpQueue
     ELSE /\ gpQueue' = Tail(gpQueue)
          /\ UNCHANGED <<gpPc, gpPlan>>
  /\ UNCHANGED <<helperVars, pgVars, fwVars, pbVars, gpIdentifier, gpWorkingDir>>

(* throw new Error(`can't find plan artifact for workflow run ${runId}`) *)
GetPlanThrow ==
  /\ gpPc = "iterate"
  /\ gpQueue = <<>>
  /\ gpPc' = "thrown"
  /\ UNCHANGED <<helperVars, pgVars, fwVars, pbVars, gpIdentifier, gpWorkingDir, gpQueue, gpPlan>>

InitGetPlanState ==
  /\ gpPc = "idle"
  /\ gpQueue = <<>>
  /\ gpPlan = NoPlan

----------------------------------------------------------------------------
(* the artifact store several Plan Generator runs leave to getPlan *)

(* Bound: the Plan Generator runs of one workflow run *)
MaxStoreRuns == 2

(* `id` of run(), with the identifier appended *)
GeneratedId(g, identifier) ==
  IF identifier # <<>> THEN g \o US \o identifier ELSE g

(* the plan artifact a Plan Generator run uploads *)
PlanArtifactOf(r) ==
  [name |-> sanitizeArtifactName(
              GeneratedId(r.gen, r.identifier) \o US \o <<"plan">>),
   plan |-> [working_directory |-> normalizePath(r.wd), build |-> <<>>]]

(* the runs that get as far as the upload *)
GeneratorRuns ==
  [gen : GenIds,
   identifier : {i \in Identifiers : ~Includes(i, US)},
   wd : WorkDirs]

(* the runs of one workflow run: artifact names are unique in a run *)
StoreRuns ==
  { rs \in SubsetsUpTo(GeneratorRuns, MaxStoreRuns) :
      \A a, b \in rs :
        a # b => PlanArtifactOf(a).name # PlanArtifactOf(b).name }

IdleResolve == rsRuns = {}

----------------------------------------------------------------------------
(* plan-integration.ts: GetPlan.findWorkflowRunId *)

(* Bounds of the run listing *)
MaxRuns == 3

MaxPerPage == 2

Trees == {"T", "U"}

NoHeadCommit == "none"

Conclusions == {"success", "failure", "null"}

(* a workflow run as listWorkflowRuns reports it; `tree` is
   head_commit.tree_id, NoHeadCommit when head_commit is null;
   conclusion "null" is a run that has not concluded *)
RunVariants == [tree : Trees \cup {NoHeadCommit}, conclusion : Conclusions]

RECURSIVE SeqsUpTo(_, _)
SeqsUpTo(S, n) ==
  IF n = 0 THEN {<<>>}
  ELSE LET prev == SeqsUpTo(S, n - 1)
       IN prev \cup {Append(q, x) : q \in {r \in prev : Len(r) = n - 1},
                                    x \in S}

(* run.id of the i-th listed run *)
RunId(i) == 100 + i

RunIdInputs == {<<>>, <<"7">>}

(* parseInt *)
NaN == -1

ParseInt(str) == IF str = <<"7">> THEN 7 ELSE NaN

Min(a, b) == IF a < b THEN a ELSE b

(* the responses paginate.iterator yields: at least one page *)
PageCount ==
  IF fwRuns = <<>> THEN 1 ELSE (Len(fwRuns) + fwPerPage - 1) \div fwPerPage

PageStatus(k) == IF k = fwBadPage THEN 500 ELSE 200

(* positions in fwRuns of the runs in resp.data of page k *)
PageFirst(k) == (k - 1) * fwPerPage + 1

PageLast(k) == Min(k * fwPerPage, Len(fwRuns))

(* a comparison that only asks for a head commit *)
TreeMatches_AnyHeadCommit(run, tree) == run.tree # NoHeadCommit

(* run?.head_commit?.tree_id === tree *)
TreeMatches(run, tree) == run.tree # NoHeadCommit /\ run.tree = tree

PageMatches(k) ==
  {i \in PageFirst(k)..PageLast(k) : TreeMatches(fwRuns[i], fwTree)}

(* explicit workflow-run-id, else getCommit of the current sha *)
FindStart ==
  /\ fwPc = "start"
  /\ IF fwRunIdIn # <<>>
     THEN /\ fwResult' = ParseInt(fwRunIdIn)
          /\ fwPc' = "returned"
     ELSE /\ fwPc' = "workflow"
          /\ UNCHANGED fwResult
  /\ UNCHANGED <<helperVars, pgVars, gpVars, pbVars, fwRunIdIn, fwTree, fwWorkflowStatus, fwRuns,
                 fwPerPage, fwBadPage, fwPage>>

(* getWorkflow and its status check *)
FindGetWorkflow ==
  /\ fwPc = "workflow"
  /\ fwPc' = IF fwWorkflowStatus # 200 THEN "thrown" ELSE "pages"
  /\ fwPage' = 1
  /\ UNCHANGED <<helperVars, pgVars, gpVars, pbVars, fwRunIdIn, fwTree, fwWorkflowStatus, fwRuns,
                 fwPerPage, fwBadPage, fwResult>>

(* one turn of `for await (const resp of runIter)` *)
FindPage ==
  /\ fwPc = "pages"
  /\ fwPage <= PageCount
  /\ IF PageStatus(fwPage) # 200
     THEN /\ fwPc' = "thrown"
          /\ UNCHANGED <<fwPage, fwResult>>
     ELSE IF PageMatches(fwPage) # {}
     THEN /\ fwResult' =
               RunId(CHOOSE i \in PageMatches(fwPage) :
                       \A j \in PageMatches(fwPage) : i <= j)
          /\ fwPc' = "returned"
          /\ UNCHANGED fwPage
     ELSE /\ fwPage' = fwPage + 1
          /\ UNCHANGED <<fwPc, fwResult>>
  /\ UNCHANGED <<helperVars, pgVars, gpVars, pbVars, fwRunIdIn, fwTree, fwWorkflowStatus, fwRuns,
                 fwPerPage, fwBadPage>>

(* the iterator is exhausted: throw new Error('Failed to find ...') *)
FindThrow ==
  /\ fwPc = "pages"
  /\ fwPage > PageCount
  /\ fwPc' = "thrown"
  /\ UNCHANGED <<helperVars, pgVars, gpVars, pbVars, fwRunIdIn, fwTree, fwWorkflowStatus, fwRuns,
                 fwPerPage, fwBadPage, fwPage, fwResult>>

InitFindState ==
  /\ fwPc = "start"
  /\ fwPage = 0
  /\ fwResult = 0

(* the components a specification leaves out stay in these states *)
IdlePlan ==
  /\ fsFiles = {}
  /\ identifierIn = <<>>
  /\ workingDirIn = <<".">>
  /\ uploadImageIn = <<>>
  /\ eventName = "push"
  /\ headOwner = "owner"
  /\ InitPlanState

IdleFind ==
  /\ fwRunIdIn = <<>>
  /\ fwTree = "T"
  /\ fwWorkflowStatus = 200
  /\ fwRuns = <<>>
  /\ fwPerPage = 1
  /\ fwBadPage = 0
  /\ InitFindState

----------------------------------------------------------------------------
(* publish.ts: Publish *)

(* Bounds of the Publisher's inputs *)
MaxBuilds == 2

MaxCandidates == 2

ImageSuffix == <<"-image">>

PublishEntry(t, n, dir, ot) ==
  [type |-> t, name |-> n, source_file |-> <<>>, source_directory |-> dir,
   build_target |-> Undefined, output_type |-> ot,
   output |-> <<t>> \o US \o n \o US \o <<ot>> \o US \o dir]

(* the build entries a plan handed to the Publisher is made of *)
PublishEntries ==
  { PublishEntry("charm", <<"c">>, <<".">>, "file"),
    PublishEntry("charm", <<"c">>, <<"charm", "/">>, "file"),
    PublishEntry("rock", <<"a">>, <<".">>, "registry"),
    PublishEntry("rock", <<"a">>, <<".">>, "file"),
    PublishEntry("docker-image", <<"b">>, <<".">>, "registry"),
    PublishEntry("file", <<"d">>, <<".">>, "file"),
    PublishEntry("file", <<"e">>, <<".">>, "file") }

Ordinal(i) == <<"_1", "_2", "_3", "_4">>[i]

Extension(e) ==
  CASE e.type = "charm" -> ".charm"
    [] e.type = "rock" -> ".rock"
    [] e.type = "docker-image" -> ".tar"
    [] e.type = "file" -> ".bin"

(* the manifest.json the Builder leaves in the artifact of entry e, with k
   produced files or images *)
Manifest(e, k) ==
  [name |-> e.name,
   files |-> IF e.output_type = "file"
             THEN [i \in 1..k |-> e.name \o <<Ordinal(i), Extension(e)>>]
             ELSE Undefined,
   images |-> IF e.output_type = "registry"
              THEN [i \in 1..k |-> <<"ghcr.io/">> \o e.name
                                     \o <<":", Ordinal(i)>>]
              ELSE Undefined]

Range(q) == {q[i] : i \in 1..Len(q)}

ManifestsOf(build) ==
  LET outs == {e.output : e \in Range(build)}
      entry(o) == CHOOSE e \in Range(build) : e.output = o
  IN { [o \in outs |-> Manifest(entry(o), c[o])] :
         c \in [outs -> 1..MaxCandidates] }

CharmResource(n, t, up) == [rname |-> n, type |-> t, upstream |-> up]

ImageA == CharmResource(<<"a", "-image">>, "oci-image", FALSE)

ImageM == CharmResource(<<"m">>, "oci-image", FALSE)

ImageUpstream == CharmResource(<<"b", "-image">>, "oci-image", TRUE)

FileD == CharmResource(<<"d">>, "file", FALSE)

NoMetadataYaml == [exists |-> FALSE, resources |-> NoResources]

MetadataYaml(r) == [exists |-> TRUE, resources |-> r]

(* the charm's declared resources: expand-extensions output and
   metadata.yaml *)
CharmDeclarations ==
  { <<NoResources, NoMetadataYaml>>,
    <<NoResources, MetadataYaml(Resources(<<ImageA, FileD>>))>>,
    <<Resources(<<>>), MetadataYaml(Resources(<<FileD>>))>>,
    <<Resources(<<ImageA>>), NoMetadataYaml>>,
    <<Resources(<<ImageA, FileD>>), MetadataYaml(NoResources)>>,
    <<Resources(<<ImageM, ImageUpstream, FileD>>), NoMetadataYaml>> }

(* values of input resource-mapping *)
ResourceMappings ==
  { <<>>,
    (<<"b">> :> <<"m">>),
    (<<"d">> :> <<"d">>),
    (<<"a">> :> <<"m">>) @@ (<<"e">> :> <<"d">>) }

Cmd(c, a, v) == [cmd |-> c, arg |-> a, value |-> v]

(* a Map, in insertion order *)
MapHas(m, k) == \E i \in 1..Len(m) : m[i].key = k

MapSet(m, k, v) ==
  IF MapHas(m, k)
  THEN [i \in 1..Len(m) |-> IF m[i].key = k THEN [key |-> k, value |-> v]
                            ELSE m[i]]
  ELSE Append(m, [key |-> k, value |-> v])

SeqHas(q, x) == \E i \in 1..Len(q) : q[i] = x

(* getCharmResources: [images, files] *)
getCharmResources ==
  LET metadata ==
        IF (~pbExpanded.present \/ Len(pbExpanded.items) = 0)
           /\ pbMetadataYaml.exists
        THEN pbMetadataYaml.resources
        ELSE pbExpanded
      names(q) == [i \in 1..Len(q) |-> q[i].rname]
  IN IF ~metadata.present THEN [images |-> <<>>, files |-> <<>>]
     ELSE [images |-> names(SelectSeq(metadata.items,
                        LAMBDA r : r.type = "oci-image" /\ ~r.upstream)),
           files |-> names(SelectSeq(metadata.items,
                        LAMBDA r : r.type = "file"))]

(* hasOwnProperty(resourceMapping, name) ? resourceMapping[name]
                                          : `${name}-image` *)
ImageResourceName(e) ==
  IF e.name \in DOMAIN pbMapping THEN pbMapping[e.name]
  ELSE e.name \o ImageSuffix

(* this.resourceMapping[build.name] *)
FileResourceName(e) ==
  IF e.name \in DOMAIN pbMapping THEN pbMapping[e.name] ELSE Undefined

PubThrow(msg) ==
  /\ pbPc' = "failed"
  /\ pbError' = msg

(* getImages: getCharmResources and the early return *)
PubGetImagesStart ==
  /\ pbPc = "start"
  /\ pbCmds' = Append(pbCmds, Cmd("expand-extensions", <<>>, <<>>))
  /\ \E ok \in BOOLEAN :
       IF ~ok THEN PubThrow("charmcraft expand-extensions failed")
       ELSE /\ pbPc' = IF Len(getCharmResources.images) = 0
                       THEN "files" ELSE "images-loop"
            /\ UNCHANGED pbError
  /\ pbIdx' = 1
  /\ UNCHANGED <<helperVars, pgVars, gpVars, fwVars, pbInputs, pbDockerLogin, pbImages,
                 pbFiles, pbCharm, pbFinalCharms>>

(* a loop that logs in for every registry-backed entry *)
ImageCommands_LoginEveryTime(e) ==
  IF e.output_type = "registry"
  THEN <<Cmd("docker-login", <<>>, <<>>)>>
       \o (IF Len(pbManifests[e.output].images) = 1
           THEN <<Cmd("docker-pull", pbManifests[e.output].images[1], <<>>)>>
           ELSE <<>>)
  ELSE <<>>

(* the commands one turn of getImages' loop runs for entry e *)
ImageCommands(e) ==
  LET manifest == pbManifests[e.output]
  IN IF e.output_type = "registry"
     THEN (IF ~pbDockerLogin THEN <<Cmd("docker-login", <<>>, <<>>)>>
           ELSE <<>>)
          \o (IF Len(manifest.images) = 1
              THEN <<Cmd("docker-pull", manifest.images[1], <<>>)>>
              ELSE <<>>)
     ELSE IF Len(manifest.files) = 1
          THEN <<Cmd("skopeo-copy",
                     <<IF manifest.files[1][Len(manifest.files[1])] = ".rock"
                       THEN "oci-archive" ELSE "docker-archive">>
                     \o <<":">> \o manifest.files[1],
                     e.name \o <<":">> \o manifest.files[1])>>
          ELSE <<>>

ImageCandidates(e) ==
  IF e.output_type = "registry" THEN pbManifests[e.output].images
  ELSE pbManifests[e.output].files

(* the image reference put into the upload map *)
ImageOf(e) ==
  IF e.output_type = "registry" THEN pbManifests[e.output].images[1]
  ELSE e.name \o <<":">> \o pbManifests[e.output].files[1]

(* one turn of `for (const build of plan.build)` in getImages *)
PubGetImagesBuild ==
  /\ pbPc = "images-loop"
  /\ pbIdx <= Len(pbBuild)
  /\ LET build == pbBuild[pbIdx]
         resourceName == ImageResourceName(build)
         cmds == ImageCommands(build)
     IN IF \/ build.type \in {"charm", "file"}
           \/ ~SeqHas(getCharmResources.images, resourceName)
        THEN /\ pbIdx' = pbIdx + 1
             /\ UNCHANGED <<pbPc, pbError, pbCmds, pbDockerLogin, pbImages>>
        ELSE \E k \in 0..(Len(cmds) + 1) :
               IF k = 0
               THEN /\ PubThrow("artifact download failed")
                    /\ UNCHANGED <<pbIdx, pbCmds, pbDockerLogin, pbImages>>
               ELSE IF k <= Len(cmds)
               THEN /\ PubThrow("command failed")
                    /\ pbCmds' = pbCmds \o SubSeq(cmds, 1, k)
                    /\ UNCHANGED <<pbIdx, pbDockerLogin, pbImages>>
               ELSE IF Len(ImageCandidates(build)) # 1
               THEN /\ PubThrow("image resource contain multiple candidates")
                    /\ pbCmds' = pbCmds \o cmds
                    /\ UNCHANGED <<pbIdx, pbDockerLogin, pbImages>>
               ELSE /\ pbCmds' = pbCmds \o cmds
                    /\ pbDockerLogin' =
                         (pbDockerLogin \/ build.output_type = "registry")
                    /\ pbImages' = MapSet(pbImages, resourceName,
                                          ImageOf(build))
                    /\ pbIdx' = pbIdx + 1
                    /\ UNCHANGED <<pbPc, pbError>>
  /\ UNCHANGED <<helperVars, pgVars, gpVars, fwVars, pbInputs, pbFiles, pbCharm,
                 pbFinalCharms>>

(* getImages: `if (upload.size != resources.length)` and the return *)
PubGetImagesEnd ==
  /\ pbPc = "images-loop"
  /\ pbIdx > Len(pbBuild)
  /\ IF Len(pbImages) # Len(getCharmResources.images)
     THEN PubThrow("can't find required resources")
     ELSE /\ pbPc' = "files"
          /\ UNCHANGED pbError
  /\ pbIdx' = 1
  /\ UNCHANGED <<helperVars, pgVars, gpVars, fwVars, pbInputs, pbDockerLogin, pbImages,
                 pbFiles, pbCharm, pbFinalCharms, pbCmds>>

(* getFiles: getCharmResources and the early return *)
PubGetFilesStart ==
  /\ pbPc = "files"
  /\ pbCmds' = Append(pbCmds, Cmd("expand-extensions", <<>>, <<>>))
  /\ \E ok \in BOOLEAN :
       IF ~ok THEN PubThrow("charmcraft expand-extensions failed")
       ELSE /\ pbPc' = IF Len(getCharmResources.files) = 0
                       THEN "charms" ELSE "files-loop"
            /\ UNCHANGED pbError
  /\ pbIdx' = 1
  /\ UNCHANGED <<helperVars, pgVars, gpVars, fwVars, pbInputs, pbDockerLogin, pbImages,
                 pbFiles, pbCharm, pbFinalCharms>>

(* one turn of `for (const build of plan.build)` in getFiles *)
PubGetFilesBuild ==
  /\ pbPc = "files-loop"
  /\ pbIdx <= Len(pbBuild)
  /\ LET build == pbBuild[pbIdx]
         resourceName == FileResourceName(build)
         files == pbManifests[build.output].files
     IN IF \/ build.type # "file"
           \/ ~SeqHas(getCharmResources.files, resourceName)
        THEN /\ pbIdx' = pbIdx + 1
             /\ UNCHANGED <<pbPc, pbError, pbFiles>>
        ELSE \E ok \in BOOLEAN :
               IF ~ok
               THEN /\ PubThrow("artifact download failed")
                    /\ UNCHANGED <<pbIdx, pbFiles>>
               ELSE IF Len(files) # 1
               THEN /\ PubThrow("file resource contain multiple candidates")
                    /\ UNCHANGED <<pbIdx, pbFiles>>
               ELSE /\ pbFiles' = MapSet(pbFiles, resourceName, files[1])
                    /\ pbIdx' = pbIdx + 1
                    /\ UNCHANGED <<pbPc, pbError>>
  /\ UNCHANGED <<helperVars, pgVars, gpVars, fwVars, pbInputs, pbDockerLogin, pbImages,
                 pbCharm, pbFinalCharms, pbCmds>>

(* getFiles: `return upload` after the loop *)
PubGetFilesEnd ==
  /\ pbPc = "files-loop"
  /\ pbIdx > Len(pbBuild)
  /\ pbPc' = "charms"
  /\ UNCHANGED <<helperVars, pgVars, gpVars, fwVars, pbInputs, pbIdx, pbDockerLogin,
                 pbImages, pbFiles, pbCharm, pbFinalCharms, pbCmds, pbError>>

(* getCharms' charmDir *)
CharmDir ==
  IF pbHasCharmSub THEN PathJoin(pbWorkingDir, <<"charm">>) ELSE pbWorkingDir

(* every charm entry of the plan, wherever its source directory *)
SelectedCharms_AnyDirectory ==
  SelectSeq(pbBuild, LAMBDA b : b.type = "charm")

(* plan.build.filter(b => b.type === 'charm' && ...) *)
SelectedCharms ==
  SelectSeq(pbBuild,
    LAMBDA b : /\ b.type = "charm"
               /\ normalizePath(b.source_directory) = normalizePath(CharmDir))

NoCharm == [name |-> Undefined, dir |-> Undefined, files |-> <<>>]

(* getCharms *)
PubGetCharms ==
  /\ pbPc = "charms"
  /\ IF Len(SelectedCharms) = 0
     THEN /\ PubThrow("no charm to upload")
          /\ UNCHANGED pbCharm
     ELSE IF Len(SelectedCharms) > 1
     THEN /\ PubThrow("more than one charm to upload")
          /\ UNCHANGED pbCharm
     ELSE \E ok \in BOOLEAN :
            IF ~ok
            THEN /\ PubThrow("artifact download failed")
                 /\ UNCHANGED pbCharm
            ELSE LET charm == SelectedCharms[1]
                     manifest == pbManifests[charm.output]
                 IN /\ pbCharm' = [name |-> manifest.name,
                                   dir |-> charm.source_directory,
                                   files |-> manifest.files]
                    /\ pbPc' = "aggregate"
                    /\ UNCHANGED pbError
  /\ UNCHANGED <<helperVars, pgVars, gpVars, fwVars, pbInputs, pbIdx, pbDockerLogin,
                 pbImages, pbFiles, pbFinalCharms, pbCmds>>

(* what aggregateCharmsAcrossRuns can return: it swallows every error *)
AggregatedCharms == {<<>>, <<<<"c", "_1", ".charm">>, <<"o", ".charm">>>>}

(* the loop that drops charms whose file name was seen before *)
RECURSIVE Dedup(_, _)
Dedup(q, seen) ==
  IF q = <<>> THEN <<>>
  ELSE IF Head(q) \in seen THEN Dedup(Tail(q), seen)
  ELSE <<Head(q)>> \o Dedup(Tail(q), seen \cup {Head(q)})

AfterCharms ==
  IF pbFiles # <<>> THEN "upload-files"
  ELSE IF pbImages # <<>> THEN "upload-images"
  ELSE "outputs"

(* run(): aggregateCharmsAcrossRuns and the deduplication *)
PubAggregate ==
  /\ pbPc = "aggregate"
  /\ \E aggregated \in AggregatedCharms :
       pbFinalCharms' = Dedup(pbCharm.files \o aggregated, {})
  /\ pbPc' = AfterCharms
  /\ pbIdx' = 1
  /\ UNCHANGED <<helperVars, pgVars, gpVars, fwVars, pbInputs, pbDockerLogin, pbImages,
                 pbFiles, pbCharm, pbCmds, pbError>>

(* one turn of `for (const [resource, filePath] of fileResources)` *)
PubUploadFile ==
  /\ pbPc = "upload-files"
  /\ pbCmds' = Append(pbCmds, Cmd("upload-resource", pbFiles[pbIdx].key,
                                  pbFiles[pbIdx].value))
  /\ \E ok \in BOOLEAN :
       IF ~ok
       THEN /\ PubThrow("charmcraft upload-resource failed")
            /\ UNCHANGED pbIdx
       ELSE /\ pbIdx' = IF pbIdx < Len(pbFiles) THEN pbIdx + 1 ELSE 1
            /\ pbPc' = IF pbIdx < Len(pbFiles) THEN "upload-files"
                       ELSE IF pbImages # <<>> THEN "upload-images"
                       ELSE "outputs"
            /\ UNCHANGED pbError
  /\ UNCHANGED <<helperVars, pgVars, gpVars, fwVars, pbInputs, pbDockerLogin, pbImages,
                 pbFiles, pbCharm, pbFinalCharms>>

(* one turn of `for (const [resource, image] of imageResources)` *)
PubUploadImage ==
  /\ pbPc = "upload-images"
  /\ LET images == Cmd("docker-images", pbImages[pbIdx].value, <<>>)
         upload == Cmd("upload-resource", pbImages[pbIdx].key,
                       pbImages[pbIdx].value)
     IN \E k \in 1..3 :
          IF k = 1
          THEN /\ PubThrow("docker images failed")
               /\ pbCmds' = Append(pbCmds, images)
               /\ UNCHANGED pbIdx
          ELSE IF k = 2
          THEN /\ PubThrow("charmcraft upload-resource failed")
               /\ pbCmds' = pbCmds \o <<images, upload>>
               /\ UNCHANGED pbIdx
          ELSE /\ pbCmds' = pbCmds \o <<images, upload>>
               /\ pbIdx' = IF pbIdx < Len(pbImages) THEN pbIdx + 1 ELSE 1
               /\ pbPc' = IF pbIdx < Len(pbImages) THEN "upload-images"
                          ELSE "outputs"
               /\ UNCHANGED pbError
  /\ UNCHANGED <<helperVars, pgVars, gpVars, fwVars, pbInputs, pbDockerLogin, pbImages,
                 pbFiles, pbCharm, pbFinalCharms>>

(* run(): core.setOutput('charms', ...), core.setOutput('charm-directory') *)
PubSetOutputs ==
  /\ pbPc = "outputs"
  /\ pbPc' = "done"
  /\ UNCHANGED <<helperVars, pgVars, gpVars, fwVars, pbInputs, pbIdx, pbDockerLogin,
                 pbImages, pbFiles, pbCharm, pbFinalCharms, pbCmds, pbError>>

InitPublishState ==
  /\ pbPc = "start"
  /\ pbIdx = 1
  /\ pbDockerLogin = FALSE
  /\ pbImages = <<>>
  /\ pbFiles = <<>>
  /\ pbCharm = NoCharm
  /\ pbFinalCharms = <<>>
  /\ pbCmds = <<>>
  /\ pbError = ""

IdlePublish ==
  /\ pbWorkingDir = <<".">>
  /\ pbMapping = <<>>
  /\ pbBuild = <<>>
  /\ pbHasCharmcraft = TRUE
  /\ pbHasCharmSub = FALSE
  /\ pbExpanded = NoResources
  /\ pbMetadataYaml = NoMetadataYaml
  /\ pbManifests = <<>>
  /\ InitPublishState

IdleGetPlan ==
  /\ gpIdentifier = <<>>
  /\ gpWorkingDir = <<".">>
  /\ InitGetPlanState

----------------------------------------------------------------------------
(* plan.ts: sanitizeArtifactName applied to its own result *)

(* Bound: the length of the names *)
MaxNameLen == 3

(* characters the function replaces, the replacement itself, and others *)
NameAlphabet == {"a", "-", ":", "/", "\\", "*"}

Names == UNION {[1..n -> NameAlphabet] : n \in 0..MaxNameLen}

Sanitize ==
  /\ saPc = "name"
  /\ saOnce' = sanitizeArtifactName(saName)
  /\ saPc' = "once"
  /\ UNCHANGED <<saName, saTwice>>
  /\ UNCHANGED exceptSanitize

SanitizeAgain ==
  /\ saPc = "once"
  /\ saTwice' = sanitizeArtifactName(saOnce)
  /\ saPc' = "twice"
  /\ UNCHANGED <<saName, saOnce>>
  /\ UNCHANGED exceptSanitize

InitSanitizeState ==
  /\ saOnce = <<>>
  /\ saTwice = <<>>
  /\ saPc = "name"

IdleSanitize ==
  /\ saName = <<>>
  /\ InitSanitizeState

----------------------------------------------------------------------------
(* build.ts: weekNumber and generateRockCacheKey *)

(* Bound: the last day a build can run on; a date is a number of days since
   1 January of EpochYear *)
MaxDay == 371

EpochYear == 2024

(* Date.prototype.getDay of 1 January of EpochYear: a Monday *)
EpochWeekday == 1

(* milliseconds per day: the unit of Date.prototype.valueOf *)
MsPerDay == 86400000

IsLeapYear(y) == (y % 4 = 0 /\ y % 100 # 0) \/ y % 400 = 0

DaysInYear(y) == IF IsLeapYear(y) THEN 366 ELSE 365

(* the day of 1 January of year y: date.setMonth(0, 1) *)
RECURSIVE YearStart(_)
YearStart(y) ==
  IF y = EpochYear THEN 0 ELSE YearStart(y - 1) + DaysInYear(y - 1)

RECURSIVE YearFrom(_, _)
YearFrom(date, y) ==
  IF date < YearStart(y + 1) THEN y ELSE YearFrom(date, y + 1)

getFullYear(date) == YearFrom(date, EpochYear)

(* 0 is Sunday *)
getDay(date) == (date + EpochWeekday) % 7

(* Date.prototype.valueOf, in days instead of milliseconds: the dates of the
   model are whole days, and a double holds every value exactly *)
valueOf(date) == date

(* Math.ceil(a / b) for a >= 0 *)
Ceil(a, b) == (a \div b) + (IF a % b = 0 THEN 0 ELSE 1)

weekNumber(date) ==
  LET dayNumber == (getDay(date) + 6) % 7
      thursday == date - dayNumber + 3
      firstThursday == valueOf(thursday)
      jan1 == YearStart(getFullYear(thursday))
      first == IF getDay(jan1) # 4
               THEN jan1 + ((4 - getDay(jan1) + 7) % 7)
               ELSE jan1
  IN 1 + Ceil(firstThursday - valueOf(first), 604800000 \div MsPerDay)

DigitChar(d) == <<"0", "1", "2", "3", "4", "5", "6", "7", "8", "9">>[d + 1]

(* String(n) of a natural number *)
RECURSIVE NumberToString(_)
NumberToString(n) ==
  IF n < 10 THEN <<DigitChar(n)>>
  ELSE NumberToString(n \div 10) \o <<DigitChar(n % 10)>>

(* .padStart(2, '0') *)
PadStart2(str) == IF Len(str) < 2 THEN <<"0">> \o str ELSE str

UsedBy(date) ==
  NumberToString(getFullYear(date)) \o <<"-", "W">>
    \o PadStart2(NumberToString(weekNumber(date)))

(* the URL without its base: the path, then the parameters in sorted order *)
generateRockCacheKey(sourceFile, arch, hash, date) ==
  PathJoin(<<"operator-workflows", "/", "build", "/", "rock", "/">>,
           sourceFile)
    \o <<"?", "arch", "=">> \o arch
    \o <<"&", "hash", "=">> \o hash
    \o <<"&", "used-by", "=">> \o UsedBy(date)
    \o <<"&", "version", "=", "1">>

CacheKeyFirst ==
  /\ ckPc = 0
  /\ ckKey1' = generateRockCacheKey(ckSourceFile, ckArch, ckHash, ckDate1)
  /\ ckPc' = 1
  /\ UNCHANGED <<ckSourceFile, ckArch, ckHash, ckDate1, ckDate2, ckKey2>>
  /\ UNCHANGED exceptCacheKey

CacheKeySecond ==
  /\ ckPc = 1
  /\ ckKey2' = generateRockCacheKey(ckSourceFile, ckArch, ckHash, ckDate2)
  /\ ckPc' = 2
  /\ UNCHANGED <<ckSourceFile, ckArch, ckHash, ckDate1, ckDate2, ckKey1>>
  /\ UNCHANGED exceptCacheKey

InitCacheKeyState ==
  /\ ckKey1 = <<>>
  /\ ckKey2 = <<>>
  /\ ckPc = 0

IdleCacheKey ==
  /\ ckSourceFile = <<"rockcraft.yaml">>
  /\ ckArch = <<"x64">>
  /\ ckHash = <<"h1">>
  /\ ckDate1 = 0
  /\ ckDate2 = 0
  /\ InitCacheKeyState

----------------------------------------------------------------------------
(* build.ts: the Builder *)

(* Bound: the files a pack or a build script leaves behind *)
MaxProduced == 2

BuilderEntry(t, n, src, target, ot) ==
  [type |-> t, name |-> n, source_file |-> src, source_directory |-> <<".">>,
   build_target |-> target, output_type |-> ot,
   output |-> Output(<<<<"t1">>, US, <<"build">>, US, <<"output">>, US,
                       <<t>>, US, n>>)]

(* the build entries handed to the Builder, one per job *)
BuilderEntries ==
  { BuilderEntry("charm", <<"c">>, <<"charmcraft.yaml">>, Undefined, "file"),
    BuilderEntry("file", <<"d">>, <<"build-", "d", ".sh">>, <<"data.bin">>,
                 "file"),
    BuilderEntry("file", <<"e">>, <<"build-", "e", ".sh">>, Undefined,
                 "file"),
    BuilderEntry("docker-image", <<"b">>, <<"b", ".Dockerfile">>, Undefined,
                 "file"),
    BuilderEntry("docker-image", <<"b">>, <<"b", ".Dockerfile">>, Undefined,
                 "registry"),
    BuilderEntry("rock", <<"a">>, <<"rockcraft.yaml">>, Undefined, "file"),
    BuilderEntry("rock", <<"a">>, <<"rockcraft.yaml">>, Undefined,
                 "registry"),
    BuilderEntry("rock", <<"a">>, <<"a", "_", "rockcraft.yaml">>, Undefined,
                 "file"),
    BuilderEntry("rock", <<"a">>, <<"a", "_", "rockcraft.yaml">>, Undefined,
                 "registry") }

InstallModes == {"repository", "channel", "default"}

(* one call of exec, of the cache or of the artifact client *)
Event(op, what, ok) == [op |-> op, what |-> what, ok |-> ok]

(* an exec whose exit code is ignored *)
ExecFails_Ignored(ok) == FALSE

(* `await exec.exec(...)` rejects when the command exits with non-zero *)
ExecFails(ok) == ~ok

ManifestFile == <<"manifest.json">>

NoManifest == [name |-> Undefined, files |-> Undefined, images |-> Undefined]

(* JSON.stringify({ name, files }) *)
FilesManifest(name, files) ==
  [name |-> name, files |-> files, images |-> Undefined]

(* a manifest that also carries a `files` key *)
ImagesManifest_WithFiles(name, images) ==
  [name |-> name, files |-> <<>>, images |-> images]

(* JSON.stringify({ name, images }) *)
ImagesManifest(name, images) ==
  [name |-> name, files |-> Undefined, images |-> images]

(* path.basename *)
Basename(p) == SplitSlash(p, <<>>)[Len(SplitSlash(p, <<>>))]

(* what the glob after the pack or the build script finds *)
ProducedFiles(plan, n) ==
  IF plan.type = "file"
  THEN IF n = 0 THEN <<>> ELSE <<plan.build_target>>
  ELSE [i \in 1..n |-> plan.name \o <<Ordinal(i), Extension(plan)>>]

(* gitTreeId's result *)
Tree == <<"tree">>

(* path.basename(f).substring(plan.name.length).replace(/\.rock$/, '') *)
RockBase(plan, f) ==
  LET rest == SubSeq(f, Len(plan.name) + 1, Len(f))
  IN IF rest # <<>> /\ rest[Len(rest)] = ".rock"
     THEN SubSeq(rest, 1, Len(rest) - 1) ELSE rest

RockImage(plan, f) ==
  <<"ghcr.io", "/", RepoOwner, "/">> \o plan.name \o <<":">> \o Tree
    \o <<"-">> \o RockBase(plan, f)

(* the references in the reverse order of the rock files *)
RockImages_Reversed(plan, rocks) ==
  [i \in 1..Len(rocks) |-> RockImage(plan, rocks[Len(rocks) + 1 - i])]

RockImages(plan, rocks) ==
  [i \in 1..Len(rocks) |-> RockImage(plan, rocks[i])]

DockerImageName(plan) == plan.name \o <<":">> \o Tree

DockerImageFile(plan) == plan.name \o <<"-">> \o Tree \o <<".tar">>

DockerRegistryImageName(plan) ==
  <<"ghcr.io", "/", RepoOwner, "/">> \o DockerImageName(plan)

(* a Builder that uses the rock cache for every rock *)
CacheableRock_Always(plan, paas) == TRUE

(* restoreRock and cacheRock: the negation of their early-return test *)
CacheableRock(plan, paas) == ~(paas \/ plan.output_type # "registry")

RockKey(plan) ==
  generateRockCacheKey(plan.source_file, <<"x64">>, <<"h1">>, 0)

(* the manifest an earlier build of the same source saved under RockKey *)
CachedManifest(plan) ==
  ImagesManifest(plan.name, RockImages(plan, ProducedFiles(plan, 1)))

(* the steps of the rockcraft installation, in order *)
InstallSteps(mode, restored, installed) ==
  IF mode = "repository"
  THEN <<Event("exec", <<"sudo mkdir">>, TRUE),
         Event("exec", <<"sudo chown">>, TRUE),
         Event("exec", <<"git clone">>, TRUE),
         Event("exec", <<"git rev-parse">>, TRUE),
         Event("restoreCache", <<"rockcraft-", "sha">>, restored)>>
       \o (IF restored THEN <<>>
           ELSE <<Event("exec", <<"snap info snapcraft">>, TRUE)>>
                \o (IF installed THEN <<>>
                    ELSE <<Event("exec", <<"snap install snapcraft">>,
                                 TRUE)>>)
                \o <<Event("exec", <<"snapcraft">>, TRUE)>>)
       \o <<Event("glob", <<"rockcraft*.snap">>, TRUE),
            Event("exec", <<"snap install rockcraft snap">>, TRUE)>>
       \o (IF restored THEN <<>>
           ELSE <<Event("saveCache", <<"rockcraft-", "sha">>, TRUE)>>)
  ELSE <<Event("exec", <<"snap install rockcraft">>, TRUE)>>

BuildFail(msg) ==
  /\ bdPc' = "failed"
  /\ bdError' = msg

(* one awaited exec.exec after the calls of `log` *)
BuildExec(log, cmd, next) ==
  \E ok \in BOOLEAN :
    /\ bdLog' = Append(log, Event("exec", cmd, ok))
    /\ IF ExecFails(ok)
       THEN BuildFail("exec failed")
       ELSE bdPc' = next /\ UNCHANGED bdError

(* gitTreeId: git rev-parse, and the throw on an empty answer *)
BuildGitTreeId(next) ==
  \E out \in {"fails", "empty", "tree"} :
    /\ bdLog' = Append(bdLog, Event("exec", <<"git rev-parse">>,
                                    out # "fails"))
    /\ IF ExecFails(out # "fails")
       THEN BuildFail("exec failed")
       ELSE IF out = "empty"
       THEN BuildFail("failed to get git tree id")
       ELSE bdPc' = next /\ UNCHANGED bdError

(* artifact.uploadArtifact(plan.output, files, plan.source_directory) as
   the last call of a build *)
BuildUpload(log, manifest, files) ==
  \E ok \in BOOLEAN :
    /\ bdLog' = Append(log, Event("uploadArtifact", bdPlan.output, ok))
    /\ bdUploads' = Append(bdUploads, [name |-> bdPlan.output,
                                       manifest |-> manifest,
                                       files |-> files])
    /\ IF ok
       THEN bdPc' = "done" /\ UNCHANGED bdError
       ELSE BuildFail("upload failed")

(* run(): the switch on plan.type *)
BuildStart ==
  /\ bdPc = "start"
  /\ bdPc' = CASE bdPlan.type = "charm" -> "charm-install"
               [] bdPlan.type = "docker-image" -> "docker-tree"
               [] bdPlan.type = "rock" -> "rock-restore"
               [] bdPlan.type = "file" -> "file-build"
               [] OTHER -> "done"
  /\ UNCHANGED <<bdInputs, bdQueue, bdLog, bdManifest, bdUploads, bdError>>
  /\ UNCHANGED exceptBuilder

(* buildCharm *)
BuildCharmInstall ==
  /\ bdPc = "charm-install"
  /\ BuildExec(bdLog, <<"snap install charmcraft">>, "charm-pack")
  /\ UNCHANGED <<bdInputs, bdQueue, bdManifest, bdUploads>>
  /\ UNCHANGED exceptBuilder

BuildCharmPack ==
  /\ bdPc = "charm-pack"
  /\ BuildExec(bdLog, <<"charmcraft pack">>, "charm-upload")
  /\ UNCHANGED <<bdInputs, bdQueue, bdManifest, bdUploads>>
  /\ UNCHANGED exceptBuilder

BuildCharmUpload ==
  /\ bdPc = "charm-upload"
  /\ LET charmFiles == ProducedFiles(bdPlan, bdProduced)
         manifest == FilesManifest(bdPlan.name, charmFiles)
     IN /\ bdManifest' = manifest
        /\ BuildUpload(bdLog, manifest, charmFiles \o <<ManifestFile>>)
  /\ UNCHANGED <<bdInputs, bdQueue>>
  /\ UNCHANGED exceptBuilder

(* buildFileResource *)
BuildFileResource ==
  /\ bdPc = "file-build"
  /\ IF bdPlan.build_target = Undefined
     THEN BuildFail("build_target is required") /\ UNCHANGED bdLog
     ELSE BuildExec(bdLog, <<"./">> \o bdPlan.source_file, "file-upload")
  /\ UNCHANGED <<bdInputs, bdQueue, bdManifest, bdUploads>>
  /\ UNCHANGED exceptBuilder

BuildFileUpload ==
  /\ bdPc = "file-upload"
  /\ LET resourceFiles == ProducedFiles(bdPlan, bdProduced)
         manifest == FilesManifest(bdPlan.name, resourceFiles)
     IN /\ bdManifest' = manifest
        /\ BuildUpload(bdLog, manifest, resourceFiles \o <<ManifestFile>>)
  /\ UNCHANGED <<bdInputs, bdQueue>>
  /\ UNCHANGED exceptBuilder

(* buildDockerImage *)
BuildDockerTree ==
  /\ bdPc = "docker-tree"
  /\ BuildGitTreeId("docker-build")
  /\ UNCHANGED <<bdInputs, bdQueue, bdManifest, bdUploads>>
  /\ UNCHANGED exceptBuilder

BuildDockerBuild ==
  /\ bdPc = "docker-build"
  /\ BuildExec(bdLog, <<"docker build">>,
               IF bdPlan.output_type = "file" THEN "docker-save"
               ELSE IF bdPlan.output_type = "registry" THEN "docker-login"
               ELSE "done")
  /\ UNCHANGED <<bdInputs, bdQueue, bdManifest, bdUploads>>
  /\ UNCHANGED exceptBuilder

(* the manifest is written before `docker save` runs *)
BuildDockerSave ==
  /\ bdPc = "docker-save"
  /\ bdManifest' = FilesManifest(bdPlan.name, <<DockerImageFile(bdPlan)>>)
  /\ BuildExec(bdLog, <<"docker save">>, "docker-upload")
  /\ UNCHANGED <<bdInputs, bdQueue, bdUploads>>
  /\ UNCHANGED exceptBuilder

BuildDockerUploadFile ==
  /\ bdPc = "docker-upload"
  /\ BuildUpload(bdLog, bdManifest,
                 <<ManifestFile, DockerImageFile(bdPlan)>>)
  /\ UNCHANGED <<bdInputs, bdQueue, bdManifest>>
  /\ UNCHANGED exceptBuilder

BuildDockerLogin ==
  /\ bdPc = "docker-login"
  /\ BuildExec(bdLog, <<"docker login">>, "docker-tag")
  /\ UNCHANGED <<bdInputs, bdQueue, bdManifest, bdUploads>>
  /\ UNCHANGED exceptBuilder

BuildDockerTag ==
  /\ bdPc = "docker-tag"
  /\ BuildExec(bdLog, <<"docker image tag">>, "docker-push")
  /\ UNCHANGED <<bdInputs, bdQueue, bdManifest, bdUploads>>
  /\ UNCHANGED exceptBuilder

BuildDockerPush ==
  /\ bdPc = "docker-push"
  /\ BuildExec(bdLog, <<"docker push">>, "docker-upload-registry")
  /\ UNCHANGED <<bdInputs, bdQueue, bdManifest, bdUploads>>
  /\ UNCHANGED exceptBuilder

BuildDockerUploadRegistry ==
  /\ bdPc = "docker-upload-registry"
  /\ LET manifest == ImagesManifest(bdPlan.name,
                                    <<DockerRegistryImageName(bdPlan)>>)
     IN /\ bdManifest' = manifest
        /\ BuildUpload(bdLog, manifest, <<ManifestFile>>)
  /\ UNCHANGED <<bdInputs, bdQueue>>
  /\ UNCHANGED exceptBuilder

(* buildRock: `if (await restoreRock(plan)) return` *)
BuildRockRestore ==
  /\ bdPc = "rock-restore"
  /\ IF CacheableRock(bdPlan, bdPaas)
     THEN IF bdCacheHit
          THEN /\ bdManifest' = CachedManifest(bdPlan)
               /\ BuildUpload(Append(bdLog, Event("restoreCache",
                                                  RockKey(bdPlan), TRUE)),
                              CachedManifest(bdPlan), <<ManifestFile>>)
          ELSE /\ bdLog' = Append(bdLog, Event("restoreCache",
                                               RockKey(bdPlan), FALSE))
               /\ bdPc' = "rock-install"
               /\ UNCHANGED <<bdManifest, bdUploads, bdError>>
     ELSE /\ bdPc' = "rock-install"
          /\ UNCHANGED <<bdLog, bdManifest, bdUploads, bdError>>
  /\ UNCHANGED <<bdInputs, bdQueue>>
  /\ UNCHANGED exceptBuilder

(* buildRock: the choice of the rockcraft installation *)
BuildRockInstall ==
  /\ bdPc = "rock-install"
  /\ \E restored, installed \in BOOLEAN :
       bdQueue' = InstallSteps(bdInstallMode, restored, installed)
  /\ bdPc' = "rock-install-run"
  /\ UNCHANGED <<bdInputs, bdLog, bdManifest, bdUploads, bdError>>
  /\ UNCHANGED exceptBuilder

(* buildInstallRockcraft, or the snap install: the next step *)
BuildRockInstallStep ==
  /\ bdPc = "rock-install-run"
  /\ bdQueue # <<>>
  /\ bdQueue' = Tail(bdQueue)
  /\ LET step == Head(bdQueue)
         next == IF Tail(bdQueue) = <<>> THEN "rock-pack"
                 ELSE "rock-install-run"
     IN IF step.op = "exec"
        THEN BuildExec(bdLog, step.what, next)
        ELSE IF step.op = "glob"
        THEN \E found \in BOOLEAN :
               /\ IF found
                  THEN bdPc' = next /\ UNCHANGED bdError
                  ELSE BuildFail("can't find rockcraft snap")
               /\ UNCHANGED bdLog
        ELSE /\ bdLog' = Append(bdLog, step)
             /\ bdPc' = next
             /\ UNCHANGED bdError
  /\ UNCHANGED <<bdInputs, bdManifest, bdUploads>>
  /\ UNCHANGED exceptBuilder

(* buildRock: the rename of a prefixed rockcraft.yaml, then rockcraft pack *)
BuildRockPack ==
  /\ bdPc = "rock-pack"
  /\ BuildExec(IF Basename(bdPlan.source_file) # <<"rockcraft.yaml">>
               THEN Append(bdLog, Event("rename", bdPlan.source_file, TRUE))
               ELSE bdLog,
               <<"rockcraft pack">>,
               IF bdPlan.output_type = "file" THEN "rock-upload-file"
               ELSE "rock-tree")
  /\ UNCHANGED <<bdInputs, bdQueue, bdManifest, bdUploads>>
  /\ UNCHANGED exceptBuilder

BuildRockUploadFile ==
  /\ bdPc = "rock-upload-file"
  /\ LET rocks == ProducedFiles(bdPlan, bdProduced)
         manifest == FilesManifest(bdPlan.name, rocks)
     IN /\ bdManifest' = manifest
        /\ BuildUpload(bdLog, manifest, rocks \o <<ManifestFile>>)
  /\ UNCHANGED <<bdInputs, bdQueue>>
  /\ UNCHANGED exceptBuilder

BuildRockTree ==
  /\ bdPc = "rock-tree"
  /\ BuildGitTreeId("rock-push")
  /\ UNCHANGED <<bdInputs, bdQueue, bdManifest, bdUploads>>
  /\ UNCHANGED exceptBuilder

(* Promise.all(rocks.map(...)): every skopeo copy is started *)
BuildRockPush ==
  /\ bdPc = "rock-push"
  /\ LET rocks == ProducedFiles(bdPlan, bdProduced)
     IN bdQueue' = [i \in 1..Len(rocks) |->
                      Event("exec", <<"skopeo copy">> \o rocks[i], TRUE)]
  /\ bdPc' = "rock-pushing"
  /\ UNCHANGED <<bdInputs, bdLog, bdManifest, bdUploads, bdError>>
  /\ UNCHANGED exceptBuilder

(* one of the started skopeo copies ends, in any order; the first that fails
   rejects the Promise.all and with it buildRock, the others go on *)
BuildRockPushSettle ==
  /\ \/ bdPc = "rock-pushing"
     \/ bdPc = "failed" /\ bdError = "skopeo copy failed"
  /\ \E i \in 1..Len(bdQueue), ok \in BOOLEAN :
       /\ bdLog' = Append(bdLog, Event("exec", bdQueue[i].what, ok))
       /\ bdQueue' = SubSeq(bdQueue, 1, i - 1)
                       \o SubSeq(bdQueue, i + 1, Len(bdQueue))
       /\ IF ExecFails(ok) /\ bdPc = "rock-pushing"
          THEN BuildFail("skopeo copy failed")
          ELSE UNCHANGED <<bdPc, bdError>>
  /\ UNCHANGED <<bdInputs, bdManifest, bdUploads>>
  /\ UNCHANGED exceptBuilder

(* the manifest, cacheRock, then the upload *)
BuildRockUploadRegistry ==
  /\ bdPc = "rock-pushing"
  /\ bdQueue = <<>>
  /\ LET rocks == ProducedFiles(bdPlan, bdProduced)
         manifest == ImagesManifest(bdPlan.name, RockImages(bdPlan, rocks))
     IN /\ bdManifest' = manifest
        /\ BuildUpload(IF CacheableRock(bdPlan, bdPaas)
                       THEN Append(bdLog, Event("saveCache", RockKey(bdPlan),
                                                TRUE))
                       ELSE bdLog,
                       manifest, <<ManifestFile>>)
  /\ UNCHANGED <<bdInputs, bdQueue>>
  /\ UNCHANGED exceptBuilder

InitBuildState ==
  /\ bdPc = "start"
  /\ bdQueue = <<>>
  /\ bdLog = <<>>
  /\ bdManifest = NoManifest
  /\ bdUploads = <<>>
  /\ bdError = ""

IdleBuilder ==
  /\ bdPlan = BuilderEntry("charm", <<"c">>, <<"charmcraft.yaml">>,
                           Undefined, "file")
  /\ bdPaas = FALSE
  /\ bdCacheHit = FALSE
  /\ bdInstallMode = "default"
  /\ bdProduced = 0
  /\ InitBuildState

----------------------------------------------------------------------------
(* plan-scan.ts: the Scan Planner *)

(* Bounds: the build entries of a plan, and the files or images a manifest
   lists *)
MaxScanBuilds == 2

MaxListed == 2

ScanBuildEntry(t, n, ot, d) ==
  [type |-> t, name |-> n, source_file |-> <<>>, source_directory |-> d,
   build_target |-> Undefined, output_type |-> ot,
   output |-> Output(<<<<"t1">>, US, <<"build">>, US, <<"output">>, US,
                       <<t>>, US, n>>),
   dir |-> d]

(* the build entries a plan handed to the Scan Planner is made of *)
ScanBuildEntries ==
  { ScanBuildEntry("charm", <<"c">>, "file", <<".">>),
    ScanBuildEntry("file", <<"d">>, "file", <<".">>),
    ScanBuildEntry("docker-image", <<"b">>, "registry", <<".">>),
    ScanBuildEntry("rock", <<"a">>, "file", <<"a">>),
    ScanBuildEntry("rock", <<"r">>, "registry", <<"a", "/", "b">>) }

(* `['charm', 'file'].includes(build.type)` without 'file' *)
ScanSkipped_OnlyCharm(build) == build.type = "charm"

(* `['charm', 'file'].includes(build.type)` *)
ScanSkipped(build) == build.type \in {"charm", "file"}

(* the manifest the Builder left in the artifact of entry e, listing k files
   or images *)
ScanManifest(e, k) ==
  IF ScanSkipped(e) THEN NoManifest
  ELSE IF e.output_type = "file"
  THEN FilesManifest(e.name, [i \in 1..k |->
                                e.name \o <<Ordinal(i), Extension(e)>>])
  ELSE ImagesManifest(e.name, [i \in 1..k |->
                                 <<"ghcr.io", "/", RepoOwner, "/">> \o e.name
                                   \o <<":">> \o Tree \o <<Ordinal(i)>>])

ScanManifestsOf(build) ==
  LET outs == {e.output : e \in Range(build)}
      entry(o) == CHOOSE e \in Range(build) : e.output = o
  IN { [o \in outs |-> ScanManifest(entry(o), c[o])] :
         c \in [outs -> 0..MaxListed] }

(* process.cwd() of the job, and the directories of the model *)
Cwd == <<"/", "w">>

ScanDirs ==
  {<<"/">>, Cwd, Cwd \o <<"/", "a">>, Cwd \o <<"/", "a", "/", "b">>}

(* the content a .trivyignore of directory d starts with; the one of the
   root directory is empty *)
OwnIgnores(d) == IF d = <<"/">> THEN <<>> ELSE <<"CVE-of-">> \o d

(* the files and directories a job can start with: a .trivyignore lies in an
   existing directory, a directory has its parent *)
ScanFileSystems ==
  { fs \in [dirs : SUBSET ScanDirs, files : SUBSET ScanDirs] :
      /\ {<<"/">>, Cwd} \subseteq fs.dirs
      /\ fs.files \subseteq fs.dirs
      /\ \A d \in fs.dirs : PathDirname(d) \in fs.dirs }

(* the hard-coded commonIgnorePatterns *)
CommonIgnorePatterns == <<"#common">>

EOL == "\n"

(* path.resolve(dir) *)
Resolve(dir) ==
  IF dir # <<>> /\ dir[1] = "/" THEN normalizePath(dir)
  ELSE normalizePath(Cwd \o <<"/">> \o dir)

(* fs.existsSync(path.join(dir, '.trivyignore')) *)
HasIgnoreFile(dir) == dir \in DOMAIN scTrivy

(* a walk that starts at the directory itself *)
ConcatStart_AtDir(startDir) == startDir

(* `let currentDir = path.dirname(startDir)` *)
ConcatStart(startDir) == PathDirname(startDir)

(* the while loop of ConcatIgnores: the directory it stops at *)
RECURSIVE WalkUp(_)
WalkUp(currentDir) ==
  IF HasIgnoreFile(currentDir) THEN currentDir
  ELSE IF PathDirname(currentDir) = currentDir THEN currentDir
  ELSE WalkUp(PathDirname(currentDir))

(* the directory of the ignoreFile ConcatIgnores reads and writes *)
IgnoreFileDir(dir) ==
  LET found == WalkUp(ConcatStart(Resolve(dir)))
  IN IF ~HasIgnoreFile(found) THEN Resolve(dir) ELSE found

(* ignoreContent of ConcatIgnores *)
IgnoreContent(dir) ==
  LET originalContent == IF HasIgnoreFile(IgnoreFileDir(dir))
                         THEN scTrivy[IgnoreFileDir(dir)] ELSE <<>>
  IN IF originalContent # <<>>
     THEN originalContent \o <<EOL>> \o CommonIgnorePatterns
     ELSE CommonIgnorePatterns

(* fs.writeFileSync(ignoreFile, ignoreContent) *)
WriteIgnoreFile(dir, content) ==
  [d \in DOMAIN scTrivy \cup {dir} |->
     IF d = dir THEN content ELSE scTrivy[d]]

(* getCommonIgnorePatterns: the file's content, '' when it cannot be read *)
getCommonIgnorePatterns ==
  IF scCommonFile = Undefined THEN <<>> ELSE scCommonFile

(* i.replaceAll(/[/:]/g, '-') + '.tar' *)
ImageFileName(i) ==
  [k \in 1..Len(i) |-> IF i[k] \in {"/", ":"} THEN "-" ELSE i[k]]
    \o <<".tar">>

FileScans(build, files) ==
  [k \in 1..Len(files) |->
     [artifact |-> build.output, file |-> files[k], image |-> <<>>,
      dir |-> build.source_directory, common_ignores |-> scCommon]]

ImageScans(build, images) ==
  [k \in 1..Len(images) |->
     [artifact |-> <<>>, file |-> ImageFileName(images[k]),
      image |-> images[k], dir |-> build.source_directory,
      common_ignores |-> scCommon]]

(* what fs.readdirSync('.').forEach(rmSync) leaves of a set of directories *)
OutsideCwd(dirs) == {d \in dirs : ~StartsWith(d, Cwd \o <<"/">>)}

NoOutput == <<"#unset">>

ScanFail(msg) ==
  /\ scPc' = "failed"
  /\ scError' = msg

(* run(): the input and, in the common variant, getCommonIgnorePatterns *)
ScanStart ==
  /\ scPc = "start"
  /\ scCommon' = IF scVariant = "common" THEN getCommonIgnorePatterns
                 ELSE Undefined
  /\ scPc' = "loop"
  /\ UNCHANGED <<scInputs, scTrivy, scDirs, scIdx, scScans, scOutput,
                 scError>>
  /\ UNCHANGED exceptScan

(* the loop: a charm or file entry is skipped *)
ScanSkip ==
  /\ scPc = "loop"
  /\ scIdx <= Len(scPlan)
  /\ ScanSkipped(scPlan[scIdx])
  /\ scIdx' = scIdx + 1
  /\ UNCHANGED <<scInputs, scTrivy, scDirs, scPc, scCommon, scScans,
                 scOutput, scError>>
  /\ UNCHANGED exceptScan

(* the loop: ConcatIgnores(build.dir), in the variant that calls it *)
ScanConcatIgnores ==
  /\ scPc = "loop"
  /\ scIdx <= Len(scPlan)
  /\ ~ScanSkipped(scPlan[scIdx])
  /\ IF scVariant = "ignores"
     THEN LET dir == scPlan[scIdx].dir
          IN IF IgnoreFileDir(dir) \in scDirs
             THEN /\ scTrivy' = WriteIgnoreFile(IgnoreFileDir(dir),
                                                IgnoreContent(dir))
                  /\ scPc' = "download"
                  /\ UNCHANGED scError
             ELSE /\ ScanFail("ENOENT")
                  /\ UNCHANGED scTrivy
     ELSE /\ scPc' = "download"
          /\ UNCHANGED <<scTrivy, scError>>
  /\ UNCHANGED <<scInputs, scDirs, scIdx, scCommon, scScans, scOutput>>
  /\ UNCHANGED exceptScan

(* the loop: the working directory is emptied, the artifact downloaded and
   its manifest.json turned into scans *)
ScanDownload ==
  /\ scPc = "download"
  /\ scDirs' = OutsideCwd(scDirs) \cup {Cwd}
  /\ scTrivy' = [d \in OutsideCwd(DOMAIN scTrivy) \ {Cwd} |-> scTrivy[d]]
  /\ \E ok \in BOOLEAN :
       IF ok
       THEN LET build == scPlan[scIdx]
                manifest == scManifests[build.output]
            IN /\ scScans' = scScans
                    \o (IF manifest.files # Undefined
                        THEN FileScans(build, manifest.files) ELSE <<>>)
                    \o (IF manifest.images # Undefined
                        THEN ImageScans(build, manifest.images) ELSE <<>>)
               /\ scIdx' = scIdx + 1
               /\ scPc' = "loop"
               /\ UNCHANGED scError
       ELSE /\ ScanFail("download failed")
            /\ UNCHANGED <<scScans, scIdx>>
  /\ UNCHANGED <<scInputs, scCommon, scOutput>>
  /\ UNCHANGED exceptScan

(* core.setOutput('scans', JSON.stringify(scans, null, 2)) *)
ScanSetOutput ==
  /\ scPc = "loop"
  /\ scIdx > Len(scPlan)
  /\ scOutput' = scScans
  /\ scPc' = "done"
  /\ UNCHANGED <<scInputs, scTrivy, scDirs, scIdx, scCommon, scScans,
                 scError>>
  /\ UNCHANGED exceptScan

InitScanState ==
  /\ scPc = "start"
  /\ scIdx = 1
  /\ scCommon = Undefined
  /\ scScans = <<>>
  /\ scOutput = NoOutput
  /\ scError = ""

IdleScan ==
  /\ scVariant = "common"
  /\ scPlan = <<>>
  /\ scManifests = <<>>
  /\ scCommonFile = Undefined
  /\ scTrivy = <<>>
  /\ scDirs = {<<"/">>, Cwd}
  /\ InitScanState

----------------------------------------------------------------------------
(* build.ts: the rock cache between two builds of one rock *)

(* Bound: the days that pass from the first key generation on *)
MaxElapsed == 7

(* the rocks built twice *)
RockCacheEntries == {e \in BuilderEntries : e.type = "rock"}

(* the checkout of the unchanged source tree *)
SourceTree(plan) == <<plan.source_file, <<"src", "/", "main.py">>>>

(* glob.hashFiles(path.join(plan.source_directory, '**')): a digest of the
   contents of every file of the directory, here named by the files *)
HashFiles(files) == <<"sha256(">> \o Concat(files) \o <<")">>

(* generateRockCacheKey(plan) in the running job, now *)
CurrentRockKey ==
  generateRockCacheKey(rcPlan.source_file, <<"x64">>, HashFiles(rcDir),
                       rcDay)

KeyEvent(op) == [op |-> op, key |-> CurrentRockKey, day |-> rcDay]

(* restoreRock: the key is looked up in the cache *)
RockCacheRestore ==
  /\ rcPc = "restore"
  /\ IF CacheableRock(rcPlan, rcPaas)
     THEN /\ rcKeys' = Append(rcKeys, KeyEvent("restoreCache"))
          /\ IF CurrentRockKey \in rcCache
             THEN /\ rcHit' = TRUE
                  /\ rcPc' = "done"
             ELSE /\ rcHit' = FALSE
                  /\ rcPc' = IF rcBuild = 1 THEN "pack" ELSE "done"
     ELSE /\ rcPc' = IF rcBuild = 1 THEN "pack" ELSE "done"
          /\ UNCHANGED <<rcKeys, rcHit>>
  /\ UNCHANGED <<rcInputs, rcDay, rcDir, rcCache, rcBuild>>
  /\ UNCHANGED exceptRockCache

(* buildRock of the first build: rockcraft pack leaves the .rock files in
   the source directory, and the manifest is written next to them *)
RockCachePack ==
  /\ rcPc = "pack"
  /\ \E n \in 1..MaxProduced :
       rcDir' = rcDir \o ProducedFiles(rcPlan, n) \o <<ManifestFile>>
  /\ rcPc' = "save"
  /\ UNCHANGED <<rcInputs, rcDay, rcCache, rcBuild, rcKeys, rcHit>>
  /\ UNCHANGED exceptRockCache

(* cacheRock of the first build; the second build then starts on a fresh
   checkout *)
RockCacheSave ==
  /\ rcPc = "save"
  /\ IF CacheableRock(rcPlan, rcPaas)
     THEN /\ rcKeys' = Append(rcKeys, KeyEvent("saveCache"))
          /\ rcCache' = rcCache \cup {CurrentRockKey}
     ELSE UNCHANGED <<rcKeys, rcCache>>
  /\ rcDir' = SourceTree(rcPlan)
  /\ rcBuild' = 2
  /\ rcPc' = "restore"
  /\ UNCHANGED <<rcInputs, rcDay, rcHit>>
  /\ UNCHANGED exceptRockCache

(* a day passes *)
RockCacheNextDay ==
  /\ rcPc # "done"
  /\ rcKeys # <<>>
  /\ rcDay < MaxDay
  /\ rcDay < rcKeys[1].day + MaxElapsed
  /\ rcDay' = rcDay + 1
  /\ UNCHANGED <<rcInputs, rcDir, rcCache, rcPc, rcBuild, rcKeys, rcHit>>
  /\ UNCHANGED exceptRockCache

InitRockCacheState ==
  /\ rcCache = {}
  /\ rcPc = "restore"
  /\ rcBuild = 1
  /\ rcKeys = <<>>
  /\ rcHit = FALSE

IdleRockCache ==
  /\ rcPlan = BuilderEntry("rock", <<"a">>, <<"rockcraft.yaml">>, Undefined,
                           "registry")
  /\ rcPaas = FALSE
  /\ rcDay = 0
  /\ rcDir = <<>>
  /\ InitRockCacheState

----------------------------------------------------------------------------
(* plan-integration.ts: the integration helper *)

(* Bound: the build entries of the plan *)
MaxIntegrationBuilds == 2

(* the build entries a plan handed to the integration helper is made of *)
IntegrationEntries ==
  { ScanBuildEntry("charm", <<"c">>, "file", <<".">>),
    ScanBuildEntry("file", <<"d">>, "file", <<".">>),
    ScanBuildEntry("rock", <<"a">>, "file", <<"a">>),
    ScanBuildEntry("docker-image", <<"b">>, "registry", <<".">>) }

(* the manifest the Builder left in the artifact of entry e, listing k files
   or images *)
IntegrationManifest(e, k) ==
  IF e.output_type = "file"
  THEN FilesManifest(e.name,
         [i \in 1..k |->
            e.name \o <<"_", <<"1", "2", "3", "4">>[i], Extension(e)>>])
  ELSE ImagesManifest(e.name,
         [i \in 1..k |->
            <<"ghcr.io", "/", RepoOwner, "/">> \o e.name
              \o <<":">> \o Tree \o <<Ordinal(i)>>])

IntegrationManifestsOf(build) ==
  LET outs == {e.output : e \in Range(build)}
      entry(o) == CHOOSE e \in Range(build) : e.output = o
  IN { [o \in outs |-> IntegrationManifest(entry(o), c[o])] :
         c \in [outs -> 0..MaxListed] }

(* the jobs listJobsForWorkflowRunAttempt can list besides the one that
   runs the helper *)
JobNames == {<<"Build", " a">>, <<"Build", " b">>, <<"Plan">>}

(* the conclusion of a job in progress is null, written "" *)
JobStates ==
  { [status |-> "in_progress", conclusion |-> ""],
    [status |-> "completed", conclusion |-> "success"],
    [status |-> "completed", conclusion |-> "failure"] }

(* the job lists a run can start with: the Plan job has succeeded *)
JobLists ==
  { jobs \in UNION { [names -> JobStates] : names \in SUBSET JobNames } :
      /\ <<"Plan">> \in DOMAIN jobs
      /\ jobs[<<"Plan">>].conclusion = "success" }

(* jobs.filter(j => (j.name || '').startsWith('Build')) *)
targetJobs == {j \in DOMAIN igJobs : StartsWith(j, <<"Build">>)}

completed == {j \in targetJobs : igJobs[j].status = "completed"}

successes == {j \in completed : igJobs[j].conclusion = "success"}

failed ==
  {j \in completed : /\ igJobs[j].conclusion # ""
                     /\ igJobs[j].conclusion # "success"}

pending == {j \in targetJobs : igJobs[j].status # "completed"}

(* the first index at which p occurs in s, 0 when it does not *)
IndexOf(s, p) ==
  LET at == {i \in 1..(Len(s) + 1 - Len(p)) :
               SubSeq(s, i, i + Len(p) - 1) = p}
  IN IF at = {} THEN 0 ELSE CHOOSE i \in at : \A j \in at : i <= j

(* String.prototype.replace with a string pattern *)
ReplaceFirst(s, p, r) ==
  LET i == IndexOf(s, p)
  IN IF i = 0 THEN s
     ELSE SubSeq(s, 1, i - 1) \o r \o SubSeq(s, i + Len(p), Len(s))

(* every file passed as the charm file *)
FileArg_CharmFile(build, name, file) ==
  <<"--", "charm-file", "=./">> \o file

(* `--${argName}=./${file}` of a charm or file entry *)
FileArg(build, name, file) ==
  LET argName == IF build.type = "charm" THEN <<"charm-file">>
                 ELSE name \o <<"-resource">>
  IN <<"--">> \o argName \o <<"=./">> \o file

(* `localhost:32000/${name}:${file.replace(`${name}_`, '')}` *)
LocalImage(name, file) ==
  <<"localhost:32000", "/">> \o name \o <<":">>
    \o ReplaceFirst(file, name \o <<"_">>, <<>>)

(* `--${name}-image=${image}` *)
ImageArg(name, image) == <<"--">> \o name \o <<"-image=">> \o image

(* args.join(' ') *)
RECURSIVE JoinSpace(_)
JoinSpace(args) ==
  IF args = <<>> THEN <<>>
  ELSE IF Len(args) = 1 THEN Head(args)
  ELSE Head(args) \o <<" ">> \o JoinSpace(Tail(args))

IntegrationFail(msg) ==
  /\ igPc' = "failed"
  /\ igError' = msg

(* the entry is done: the args of its images are pushed and the loop goes
   on *)
IntegrationNext(args, manifest) ==
  /\ igArgs' = args
       \o (IF manifest.images # Undefined
           THEN [k \in 1..Len(manifest.images) |->
                   ImageArg(manifest.name, manifest.images[k])]
           ELSE <<>>)
  /\ igIdx' = igIdx + 1
  /\ igFile' = 1
  /\ igPc' = "loop"
  /\ UNCHANGED igError

(* run(): the plan is parsed and waitBuild() called without await *)
IntegrationStart ==
  /\ ~igCrashed
  /\ igPc = "start"
  /\ wbPc' = "poll"
  /\ igPc' = "loop"
  /\ UNCHANGED <<igInputs, igJobs, igIdx, igFile, igDownloads, igArgs, igOutput, igError, igCrashed>>
  /\ UNCHANGED exceptIntegration

(* waitBuild: one round of its loop; what it throws is handled nowhere and
   ends the process *)
WaitBuildPoll ==
  /\ ~igCrashed
  /\ wbPc = "poll"
  /\ \E listed \in BOOLEAN :
       IF ~listed \/ failed # {}
       THEN /\ wbPc' = "thrown"
            /\ igCrashed' = TRUE
       ELSE IF targetJobs = {} \/ (pending = {} /\ successes = targetJobs)
       THEN /\ wbPc' = "returned"
            /\ UNCHANGED igCrashed
       ELSE /\ wbPc' = "sleep"
            /\ UNCHANGED igCrashed
  /\ UNCHANGED <<igInputs, igJobs, igPc, igIdx, igFile, igDownloads, igArgs,
                 igOutput, igError>>
  /\ UNCHANGED exceptIntegration

(* waitBuild: sleep(5000) is over *)
WaitBuildWake ==
  /\ ~igCrashed
  /\ wbPc = "sleep"
  /\ wbPc' = "poll"
  /\ UNCHANGED <<igInputs, igJobs, igPc, igIdx, igFile, igDownloads,
                 igArgs, igOutput, igError, igCrashed>>
  /\ UNCHANGED exceptIntegration

(* a Build job of the run completes *)
JobCompletes ==
  /\ \E j \in pending, conclusion \in {"success", "failure"} :
       igJobs' = [igJobs EXCEPT
                    ![j] = [status |-> "completed",
                            conclusion |-> conclusion]]
  /\ UNCHANGED <<igInputs, igPc, igIdx, igFile, igDownloads, igArgs, igOutput, igError, wbPc, igCrashed>>
  /\ UNCHANGED exceptIntegration

(* the loop: the artifact of the entry is downloaded, once, and its
   manifest read; the files of a charm or file entry are moved and turned
   into args *)
IntegrationDownload ==
  /\ ~igCrashed
  /\ igPc = "loop"
  /\ igIdx <= Len(igPlan)
  /\ LET build == igPlan[igIdx]
         manifest == igManifests[build.output]
     IN \E ok \in BOOLEAN :
          /\ igDownloads' = Append(igDownloads,
                                   [output |-> build.output, ok |-> ok])
          /\ IF ~ok
             THEN /\ IntegrationFail("download failed")
                  /\ UNCHANGED <<igIdx, igFile, igArgs>>
             ELSE IF build.type \in {"charm", "file"}
             THEN IntegrationNext(
                    igArgs \o [k \in 1..Len(manifest.files) |->
                                 FileArg(build, manifest.name,
                                         manifest.files[k])],
                    NoManifest)
             ELSE IF manifest.files # Undefined /\ manifest.files # <<>>
             THEN /\ igPc' = "copy"
                  /\ UNCHANGED <<igIdx, igFile, igArgs, igError>>
             ELSE IntegrationNext(igArgs, manifest)
  /\ UNCHANGED <<igInputs, igJobs, igOutput, wbPc, igCrashed>>
  /\ UNCHANGED exceptIntegration

(* the loop over the files of a rock or docker-image manifest: skopeo copy
   into the local registry *)
IntegrationCopy ==
  /\ ~igCrashed
  /\ igPc = "copy"
  /\ LET build == igPlan[igIdx]
         manifest == igManifests[build.output]
         file == manifest.files[igFile]
         args == Append(igArgs,
                        ImageArg(manifest.name,
                                 LocalImage(manifest.name, file)))
     IN \E ok \in BOOLEAN :
          IF ExecFails(ok)
          THEN /\ IntegrationFail("skopeo failed")
               /\ UNCHANGED <<igIdx, igFile, igArgs>>
          ELSE IF igFile < Len(manifest.files)
          THEN /\ igArgs' = args
               /\ igFile' = igFile + 1
               /\ UNCHANGED <<igPc, igIdx, igError>>
          ELSE IntegrationNext(args, manifest)
  /\ UNCHANGED <<igInputs, igJobs, igDownloads, igOutput, wbPc,
                 igCrashed>>
  /\ UNCHANGED exceptIntegration

(* core.setOutput('args', args.join(' ')) *)
IntegrationSetOutput ==
  /\ ~igCrashed
  /\ igPc = "loop"
  /\ igIdx > Len(igPlan)
  /\ igOutput' = JoinSpace(igArgs)
  /\ igPc' = "done"
  /\ UNCHANGED <<igInputs, igJobs, igIdx, igFile, igDownloads, igArgs, igError, wbPc, igCrashed>>
  /\ UNCHANGED exceptIntegration

InitIntegrationState ==
  /\ igPc = "start"
  /\ igIdx = 1
  /\ igFile = 1
  /\ igDownloads = <<>>
  /\ igArgs = <<>>
  /\ igOutput = NoOutput
  /\ igError = ""
  /\ wbPc = "idle"
  /\ igCrashed = FALSE

IdleIntegration ==
  /\ igPlan = <<>>
  /\ igManifests = <<>>
  /\ igJobs = <<>>
  /\ InitIntegrationState

----------------------------------------------------------------------------
(* The workflows: jobs, their `needs` and their `if` conditions *)

(* the largest build matrix of a run *)
MaxMatrix == 2

(* the files a push or a pull request may change *)
ChangedFiles ==
  {<<"README", ".md">>, <<"docs/index", ".md">>, <<"src/charm", ".py">>}

(* echo "$CHANGED_FILES": one line per file, one empty line for no file *)
EchoLines(files) == IF files = {} THEN {<<>>} ELSE files

(* echo "$CHANGED_FILES" | grep -v "\.md$" | wc -l *)
CodeFileChanges(files) ==
  Cardinality({l \in EchoLines(files) : ~EndsWith(l, <<".md">>)})

(* $([[ $CODE_FILE_CHANGES -eq "0" ]] && echo 'False' || echo 'True') *)
HasCodeChanges(files) ==
  IF CodeFileChanges(files) = 0 THEN "False" ELSE "True"

(* every job named in `needs` has concluded *)
Concluded(result, needs) == \A n \in needs : result[n] # ""

(* success(): every job named in `needs` succeeded *)
success(result, needs) == \A n \in needs : result[n] = "success"

(* the result of a job whose steps ran *)
StepsResult(ok) == IF ok THEN "success" ELSE "failure"

(* integration_test.yaml *)

IntegrationJobs ==
  {"plan", "build", "plan-scan", "scan", "integration-test",
   "required_status_checks"}

(* the results the jobs of a matrix may have: fail-fast cancels the jobs
   still running when one of them fails *)
MatrixResults(n) ==
  {rs \in [1..n -> {"success", "failure", "cancelled"}] :
     (\E i \in 1..n : rs[i] = "cancelled") =>
       (\E i \in 1..n : rs[i] = "failure")}

(* the result of a matrix job: a matrix without values is an error *)
MatrixResult(rs) ==
  IF rs = <<>> THEN "failure"
  ELSE IF \E i \in 1..Len(rs) : rs[i] = "failure" THEN "failure"
  ELSE "success"

ItConcludes(job, result) == itResult' = [itResult EXCEPT ![job] = result]

(* jobs.plan *)
ItPlan ==
  /\ itResult["plan"] = ""
  /\ IF itCancelled
       THEN /\ ItConcludes("plan", "cancelled")
            /\ UNCHANGED itHasCodeChanges
       ELSE \E ok \in BOOLEAN :
              /\ ItConcludes("plan", StepsResult(ok))
              /\ itHasCodeChanges' =
                   IF ok THEN HasCodeChanges(itChanged) ELSE ""
  /\ UNCHANGED <<itInputs, itCancelled, itScans, itBuildJobs>>
  /\ UNCHANGED exceptIntegrationWorkflow

(* jobs.build: needs plan, if has-code-changes == 'True' *)
ItBuild ==
  /\ itResult["build"] = ""
  /\ Concluded(itResult, {"plan"})
  /\ IF itCancelled
       THEN /\ ItConcludes("build", "cancelled")
            /\ UNCHANGED itBuildJobs
       ELSE IF success(itResult, {"plan"}) /\ itHasCodeChanges = "True"
         THEN \E rs \in MatrixResults(itMatrix) :
                /\ itBuildJobs' = rs
                /\ ItConcludes("build", MatrixResult(rs))
         ELSE /\ ItConcludes("build", "skipped")
              /\ UNCHANGED itBuildJobs
  /\ UNCHANGED <<itInputs, itCancelled, itHasCodeChanges, itScans>>
  /\ UNCHANGED exceptIntegrationWorkflow

(* jobs.plan-scan: needs build and plan *)
ItPlanScan ==
  /\ itResult["plan-scan"] = ""
  /\ Concluded(itResult, {"build", "plan"})
  /\ IF itCancelled
       THEN /\ ItConcludes("plan-scan", "cancelled")
            /\ UNCHANGED itScans
       ELSE IF success(itResult, {"build", "plan"})
         THEN \E ok \in BOOLEAN :
                /\ ItConcludes("plan-scan", StepsResult(ok))
                /\ itScans' = IF ~ok THEN ""
                              ELSE IF itWithImages THEN "[scan]" ELSE "[]"
         ELSE /\ ItConcludes("plan-scan", "skipped")
              /\ UNCHANGED itScans
  /\ UNCHANGED <<itInputs, itCancelled, itHasCodeChanges, itBuildJobs>>
  /\ UNCHANGED exceptIntegrationWorkflow

(* jobs.scan: needs build and plan-scan, if scans != '[]' *)
ItScan ==
  /\ itResult["scan"] = ""
  /\ Concluded(itResult, {"build", "plan-scan"})
  /\ IF itCancelled
       THEN ItConcludes("scan", "cancelled")
       ELSE IF success(itResult, {"build", "plan-scan"}) /\ itScans # "[]"
         THEN \E ok \in BOOLEAN : ItConcludes("scan", StepsResult(ok))
         ELSE ItConcludes("scan", "skipped")
  /\ UNCHANGED <<itInputs, itCancelled, itHasCodeChanges, itScans,
                 itBuildJobs>>
  /\ UNCHANGED exceptIntegrationWorkflow

(* jobs.integration-test: needs plan and build,
   if always() && needs.plan.result == 'success' &&
      (needs.build.result == 'success' || plan.build is []) *)
ItIntegrationTest ==
  /\ itResult["integration-test"] = ""
  /\ Concluded(itResult, {"plan", "build"})
  /\ IF /\ itResult["plan"] = "success"
        /\ (itResult["build"] = "success" \/ itMatrix = 0)
       THEN \E ok \in BOOLEAN :
              ItConcludes("integration-test", StepsResult(ok))
       ELSE ItConcludes("integration-test", "skipped")
  /\ UNCHANGED <<itInputs, itCancelled, itHasCodeChanges, itScans,
                 itBuildJobs>>
  /\ UNCHANGED exceptIntegrationWorkflow

(* the step of jobs.required_status_checks *)
RequiredChecksPass(result) ==
  /\ result["scan"] \in {"skipped", "success"}
  /\ result["integration-test"] \in {"skipped", "success"}

(* jobs.required_status_checks: needs integration-test and scan,
   if always() && !cancelled() *)
ItRequiredStatusChecks ==
  /\ itResult["required_status_checks"] = ""
  /\ Concluded(itResult, {"integration-test", "scan"})
  /\ IF ~itCancelled
       THEN ItConcludes("required_status_checks",
                        StepsResult(RequiredChecksPass(itResult)))
       ELSE ItConcludes("required_status_checks", "skipped")
  /\ UNCHANGED <<itInputs, itCancelled, itHasCodeChanges, itScans,
                 itBuildJobs>>
  /\ UNCHANGED exceptIntegrationWorkflow

(* somebody cancels the run *)
ItCancel ==
  /\ ~itCancelled
  /\ itResult["required_status_checks"] = ""
  /\ itCancelled' = TRUE
  /\ UNCHANGED <<itInputs, itResult, itHasCodeChanges, itScans, itBuildJobs>>
  /\ UNCHANGED exceptIntegrationWorkflow

InitIntegrationWorkflowState ==
  /\ itCancelled = FALSE
  /\ itResult = [j \in IntegrationJobs |-> ""]
  /\ itHasCodeChanges = ""
  /\ itScans = ""
  /\ itBuildJobs = <<>>

IdleIntegrationWorkflow ==
  /\ itChanged = {}
  /\ itMatrix = 0
  /\ itWithImages = FALSE
  /\ InitIntegrationWorkflowState

(* the publish workflow *)

PublishJobs ==
  {"select-channel", "plan", "publish-charm", "draft-publish-docs",
   "release-charm-libs"}

(* the `Find changes` step of jobs.plan: what it prints, and the value of
   has_code_changes it appends to $GITHUB_OUTPUT ("" when it appends none) *)
FindChanges(force, files) ==
  IF force
    THEN [stdout |-> <<"has_code_changes=True">>, output |-> ""]
    ELSE [stdout |-> <<>>, output |-> HasCodeChanges(files)]

PwConcludes(job, result) == pwResult' = [pwResult EXCEPT ![job] = result]

(* jobs.select-channel: its one step has continue-on-error *)
PwSelectChannel ==
  /\ pwResult["select-channel"] = ""
  /\ PwConcludes("select-channel", "success")
  /\ UNCHANGED <<pwInputs, pwStdout, pwHasCodeChanges>>
  /\ UNCHANGED exceptPublishWorkflow

(* jobs.plan: get-plan, checkout, Find changes *)
PwPlan ==
  /\ pwResult["plan"] = ""
  /\ \E ok \in BOOLEAN :
       /\ PwConcludes("plan", StepsResult(ok))
       /\ pwStdout' =
            IF ok THEN FindChanges(pwForcePublish, pwChanged).stdout
            ELSE <<>>
       /\ pwHasCodeChanges' =
            IF ok THEN FindChanges(pwForcePublish, pwChanged).output
            ELSE ""
  /\ UNCHANGED pwInputs
  /\ UNCHANGED exceptPublishWorkflow

(* jobs.publish-charm: needs plan and select-channel,
   if has-code-changes == 'True' *)
PwPublishCharm ==
  /\ pwResult["publish-charm"] = ""
  /\ Concluded(pwResult, {"plan", "select-channel"})
  /\ IF /\ success(pwResult, {"plan", "select-channel"})
        /\ pwHasCodeChanges = "True"
       THEN \E ok \in BOOLEAN : PwConcludes("publish-charm", StepsResult(ok))
       ELSE PwConcludes("publish-charm", "skipped")
  /\ UNCHANGED <<pwInputs, pwStdout, pwHasCodeChanges>>
  /\ UNCHANGED exceptPublishWorkflow

(* jobs.draft-publish-docs: needs plan, if inputs.publish-docs *)
PwDraftPublishDocs ==
  /\ pwResult["draft-publish-docs"] = ""
  /\ Concluded(pwResult, {"plan"})
  /\ IF success(pwResult, {"plan"}) /\ pwPublishDocs
       THEN \E ok \in BOOLEAN :
              PwConcludes("draft-publish-docs", StepsResult(ok))
       ELSE PwConcludes("draft-publish-docs", "skipped")
  /\ UNCHANGED <<pwInputs, pwStdout, pwHasCodeChanges>>
  /\ UNCHANGED exceptPublishWorkflow

(* jobs.release-charm-libs: needs plan and publish-charm,
   if inputs.publish-libs && has-code-changes == 'True' *)
PwReleaseCharmLibs ==
  /\ pwResult["release-charm-libs"] = ""
  /\ Concluded(pwResult, {"plan", "publish-charm"})
  /\ IF /\ success(pwResult, {"plan", "publish-charm"})
        /\ pwPublishLibs
        /\ pwHasCodeChanges = "True"
       THEN \E ok \in BOOLEAN :
              PwConcludes("release-charm-libs", StepsResult(ok))
       ELSE PwConcludes("release-charm-libs", "skipped")
  /\ UNCHANGED <<pwInputs, pwStdout, pwHasCodeChanges>>
  /\ UNCHANGED exceptPublishWorkflow

InitPublishWorkflowState ==
  /\ pwResult = [j \in PublishJobs |-> ""]
  /\ pwStdout = <<>>
  /\ pwHasCodeChanges = ""

IdlePublishWorkflow ==
  /\ pwForcePublish = FALSE
  /\ pwPublishDocs = FALSE
  /\ pwPublishLibs = FALSE
  /\ pwChanged = {}
  /\ InitPublishWorkflowState

IdleHelpers ==
  /\ IdleSanitize
  /\ IdleCacheKey
  /\ IdleBuilder
  /\ IdleScan
  /\ IdleIntegration
  /\ IdleResolve
  /\ IdleIntegrationWorkflow
  /\ IdlePublishWorkflow
  /\ IdleRockCache

----------------------------------------------------------------------------
(* Specifications *)

(* the Plan Generator over every file system of at most MaxFiles files *)
InitPlan ==
  /\ IdleHelpers
  /\ fsFiles \in FileSystems(DescriptorFiles, MaxFiles)
  /\ identifierIn \in {<<>>, <<"x">>}
  /\ workingDirIn \in {<<".", "/">>, <<"c", "/">>}
  /\ uploadImageIn \in {<<>>, <<"artifact">>}
  /\ eventName = "push"
  /\ headOwner = "owner"
  /\ InitPlanState
  /\ IdleGetPlan
  /\ IdleFind
  /\ IdlePublish

NextPlan ==
  \/ PlanStart
  \/ PlanBuildCharm
  \/ PlanBuildRock
  \/ PlanBuildDockerImage
  \/ PlanBuildFileResource
  \/ PlanUpload

SpecPlan == InitPlan /\ [][NextPlan]_vars

(* Bound of the round-trip specification *)
MaxPlanFiles == 1

RoundTripFiles ==
  { f \in DescriptorFiles :
      /\ f.dir \in {<<>>, <<"sub">>}
      /\ f.kind = "charmcraft" => f.name = <<"a">> /\ f.resources.present
      /\ f.kind = "rockcraft" => f.name = <<"a">>
      /\ f.kind = "dockerfile" => f.base = <<"a">> /\ f.dir = <<>> }

(* one Plan Generator run over every input, then getPlan on that run *)
InitRoundTrip ==
  /\ IdleHelpers
  /\ fsFiles \in FileSystems(RoundTripFiles, MaxPlanFiles)
  /\ identifierIn \in Identifiers
  /\ workingDirIn \in WorkDirs
  /\ uploadImageIn \in UploadImages
  /\ eventName \in EventNames
  /\ headOwner \in Owners
  /\ InitPlanState
  /\ gpIdentifier \in Identifiers
  /\ gpWorkingDir \in WorkDirs
  /\ InitGetPlanState
  /\ IdleFind
  /\ IdlePublish

NextRoundTrip ==
  \/ PlanStart
  \/ PlanBuildCharm
  \/ PlanBuildRock
  \/ PlanBuildDockerImage
  \/ PlanBuildFileResource
  \/ PlanUpload
  \/ GetPlanList
  \/ GetPlanExamine
  \/ GetPlanThrow

SpecRoundTrip == InitRoundTrip /\ [][NextRoundTrip]_vars

(* getPlan on the artifact store of a workflow run with several finished
   Plan Generator runs *)
InitResolve ==
  /\ IdleRockCache
  /\ IdleIntegrationWorkflow
  /\ IdlePublishWorkflow
  /\ IdleSanitize
  /\ IdleCacheKey
  /\ IdleBuilder
  /\ IdleScan
  /\ IdleIntegration
  /\ IdleFind
  /\ IdlePublish
  /\ rsRuns \in StoreRuns
  /\ fsFiles = {}
  /\ identifierIn = <<>>
  /\ workingDirIn = <<".">>
  /\ uploadImageIn = <<>>
  /\ eventName = "push"
  /\ headOwner = RepoOwner
  /\ pgPc = "done"
  /\ id = <<>>
  /\ workingDir = <<>>
  /\ imageOutputType = "registry"
  /\ buildPlans = <<>>
  /\ artifacts = {PlanArtifactOf(r) : r \in rsRuns}
  /\ planOutput = NoPlan
  /\ pgError = ""
  /\ gpIdentifier \in Identifiers
  /\ gpWorkingDir \in WorkDirs
  /\ InitGetPlanState

NextResolve ==
  \/ GetPlanList
  \/ GetPlanExamine
  \/ GetPlanThrow

SpecResolve == InitResolve /\ [][NextResolve]_vars

(* findWorkflowRunId over every listing of at most MaxRuns runs *)
InitFind ==
  /\ IdleHelpers
  /\ IdlePlan
  /\ IdleGetPlan
  /\ IdlePublish
  /\ fwRunIdIn \in RunIdInputs
  /\ fwTree = "T"
  /\ fwWorkflowStatus \in {200, 404}
  /\ fwRuns \in SeqsUpTo(RunVariants, MaxRuns)
  /\ fwPerPage \in 1..MaxPerPage
  /\ fwBadPage \in 0..MaxRuns
  /\ InitFindState

NextFind ==
  \/ FindStart
  \/ FindGetWorkflow
  \/ FindPage
  \/ FindThrow

SpecFind == InitFind /\ [][NextFind]_vars

(* the Publisher over every plan of at most MaxBuilds entries *)
InitPublish ==
  /\ IdleHelpers
  /\ IdlePlan
  /\ IdleGetPlan
  /\ IdleFind
  /\ pbWorkingDir = <<".", "/">>
  /\ pbMapping \in ResourceMappings
  /\ pbBuild \in SeqsUpTo(PublishEntries, MaxBuilds)
  /\ \E layout \in {<<TRUE, FALSE>>, <<FALSE, TRUE>>, <<TRUE, TRUE>>} :
       /\ pbHasCharmcraft = layout[1]
       /\ pbHasCharmSub = layout[2]
  /\ \E declared \in CharmDeclarations :
       /\ pbExpanded = declared[1]
       /\ pbMetadataYaml = declared[2]
  /\ pbManifests \in ManifestsOf(pbBuild)
  /\ InitPublishState

NextPublish ==
  \/ PubGetImagesStart
  \/ PubGetImagesBuild
  \/ PubGetImagesEnd
  \/ PubGetFilesStart
  \/ PubGetFilesBuild
  \/ PubGetFilesEnd
  \/ PubGetCharms
  \/ PubAggregate
  \/ PubUploadFile
  \/ PubUploadImage
  \/ PubSetOutputs

SpecPublish == InitPublish /\ [][NextPublish]_vars

(* sanitizeArtifactName over every name of at most MaxNameLen characters *)
InitSanitize ==
  /\ IdleRockCache
  /\ IdleResolve
  /\ IdleIntegrationWorkflow
  /\ IdlePublishWorkflow
  /\ IdleIntegration
  /\ IdleScan
  /\ IdleBuilder
  /\ IdlePlan
  /\ IdleGetPlan
  /\ IdleFind
  /\ IdlePublish
  /\ saName \in Names
  /\ InitSanitizeState
  /\ IdleCacheKey

NextSanitize ==
  \/ Sanitize
  \/ SanitizeAgain

SpecSanitize == InitSanitize /\ [][NextSanitize]_vars

(* two builds of one rock on days up to MaxDay *)
InitCacheKey ==
  /\ IdleRockCache
  /\ IdleResolve
  /\ IdleIntegrationWorkflow
  /\ IdlePublishWorkflow
  /\ IdleIntegration
  /\ IdleScan
  /\ IdleBuilder
  /\ IdlePlan
  /\ IdleGetPlan
  /\ IdleFind
  /\ IdlePublish
  /\ IdleSanitize
  /\ ckSourceFile = <<"sub", "/", "rockcraft.yaml">>
  /\ ckArch \in {<<"x64">>, <<"arm64">>}
  /\ ckHash = <<"h1">>
  /\ ckDate1 \in 0..MaxDay
  /\ ckDate2 \in ckDate1..MaxDay
  /\ InitCacheKeyState

NextCacheKey ==
  \/ CacheKeyFirst
  \/ CacheKeySecond

SpecCacheKey == InitCacheKey /\ [][NextCacheKey]_vars

(* one Builder job for every build entry, cache state and installation *)
InitBuild ==
  /\ IdleRockCache
  /\ IdleResolve
  /\ IdleIntegrationWorkflow
  /\ IdlePublishWorkflow
  /\ IdleIntegration
  /\ IdleScan
  /\ IdlePlan
  /\ IdleGetPlan
  /\ IdleFind
  /\ IdlePublish
  /\ IdleSanitize
  /\ IdleCacheKey
  /\ bdPlan \in BuilderEntries
  /\ bdProduced \in 0..MaxProduced
  /\ \/ /\ bdPlan.type = "rock"
        /\ bdPaas \in BOOLEAN
        /\ bdCacheHit \in BOOLEAN
        /\ bdInstallMode \in InstallModes
     \/ /\ bdPlan.type # "rock"
        /\ bdPaas = FALSE
        /\ bdCacheHit = FALSE
        /\ bdInstallMode = "default"
  /\ InitBuildState

NextBuild ==
  \/ BuildStart
  \/ BuildCharmInstall
  \/ BuildCharmPack
  \/ BuildCharmUpload
  \/ BuildFileResource
  \/ BuildFileUpload
  \/ BuildDockerTree
  \/ BuildDockerBuild
  \/ BuildDockerSave
  \/ BuildDockerUploadFile
  \/ BuildDockerLogin
  \/ BuildDockerTag
  \/ BuildDockerPush
  \/ BuildDockerUploadRegistry
  \/ BuildRockRestore
  \/ BuildRockInstall
  \/ BuildRockInstallStep
  \/ BuildRockPack
  \/ BuildRockUploadFile
  \/ BuildRockTree
  \/ BuildRockPush
  \/ BuildRockPushSettle
  \/ BuildRockUploadRegistry

SpecBuild == InitBuild /\ [][NextBuild]_vars

(* two builds of every rock, the first on any day up to MaxDay *)
InitRockCache ==
  /\ IdlePlan
  /\ IdleGetPlan
  /\ IdleFind
  /\ IdlePublish
  /\ IdleSanitize
  /\ IdleCacheKey
  /\ IdleBuilder
  /\ IdleScan
  /\ IdleIntegration
  /\ IdleResolve
  /\ IdleIntegrationWorkflow
  /\ IdlePublishWorkflow
  /\ rcPlan \in RockCacheEntries
  /\ rcPaas \in BOOLEAN
  /\ rcDay \in 0..MaxDay
  /\ rcDir = SourceTree(rcPlan)
  /\ InitRockCacheState

NextRockCache ==
  \/ RockCacheRestore
  \/ RockCachePack
  \/ RockCacheSave
  \/ RockCacheNextDay

SpecRockCache == InitRockCache /\ [][NextRockCache]_vars

(* the Scan Planner over every plan of at most MaxScanBuilds entries *)
InitScan ==
  /\ IdleRockCache
  /\ IdleResolve
  /\ IdleIntegrationWorkflow
  /\ IdlePublishWorkflow
  /\ IdleIntegration
  /\ IdlePlan
  /\ IdleGetPlan
  /\ IdleFind
  /\ IdlePublish
  /\ IdleSanitize
  /\ IdleCacheKey
  /\ IdleBuilder
  /\ scPlan \in SeqsUpTo(ScanBuildEntries, MaxScanBuilds)
  /\ scManifests \in ScanManifestsOf(scPlan)
  /\ \/ /\ scVariant = "ignores"
        /\ scCommonFile = Undefined
        /\ \E fs \in ScanFileSystems :
             /\ scDirs = fs.dirs
             /\ scTrivy = [d \in fs.files |-> OwnIgnores(d)]
     \/ /\ scVariant = "common"
        /\ scCommonFile \in {Undefined, <<"CVE-9">>}
        /\ scDirs = {<<"/">>, Cwd}
        /\ scTrivy = <<>>
  /\ InitScanState

NextScan ==
  \/ ScanStart
  \/ ScanSkip
  \/ ScanConcatIgnores
  \/ ScanDownload
  \/ ScanSetOutput

SpecScan == InitScan /\ [][NextScan]_vars

(* one run of the integration helper for every plan, manifests and jobs *)
InitIntegration ==
  /\ IdleRockCache
  /\ IdleResolve
  /\ IdleIntegrationWorkflow
  /\ IdlePublishWorkflow
  /\ IdlePlan
  /\ IdleGetPlan
  /\ IdleFind
  /\ IdlePublish
  /\ IdleSanitize
  /\ IdleCacheKey
  /\ IdleBuilder
  /\ IdleScan
  /\ igPlan \in SeqsUpTo(IntegrationEntries, MaxIntegrationBuilds)
  /\ igManifests \in IntegrationManifestsOf(igPlan)
  /\ igJobs \in JobLists
  /\ InitIntegrationState

NextIntegration ==
  \/ IntegrationStart
  \/ WaitBuildPoll
  \/ WaitBuildWake
  \/ JobCompletes
  \/ IntegrationDownload
  \/ IntegrationCopy
  \/ IntegrationSetOutput

SpecIntegration == InitIntegration /\ [][NextIntegration]_vars

(* one run of the integration test workflow, over every set of changed
   files and every build matrix of at most MaxMatrix entries *)
InitIntegrationWorkflow ==
  /\ IdlePlan
  /\ IdleGetPlan
  /\ IdleFind
  /\ IdlePublish
  /\ IdleSanitize
  /\ IdleCacheKey
  /\ IdleBuilder
  /\ IdleScan
  /\ IdleIntegration
  /\ IdleResolve
  /\ IdleRockCache
  /\ IdlePublishWorkflow
  /\ itChanged \in SUBSET ChangedFiles
  /\ itMatrix \in 0..MaxMatrix
  /\ itWithImages \in BOOLEAN
  /\ InitIntegrationWorkflowState

NextIntegrationWorkflow ==
  \/ ItPlan
  \/ ItBuild
  \/ ItPlanScan
  \/ ItScan
  \/ ItIntegrationTest
  \/ ItRequiredStatusChecks
  \/ ItCancel

SpecIntegrationWorkflow ==
  InitIntegrationWorkflow /\ [][NextIntegrationWorkflow]_vars

(* one run of the publish workflow, over every input and every set of
   changed files *)
InitPublishWorkflow ==
  /\ IdlePlan
  /\ IdleGetPlan
  /\ IdleFind
  /\ IdlePublish
  /\ IdleSanitize
  /\ IdleCacheKey
  /\ IdleBuilder
  /\ IdleScan
  /\ IdleIntegration
  /\ IdleResolve
  /\ IdleRockCache
  /\ IdleIntegrationWorkflow
  /\ pwForcePublish \in BOOLEAN
  /\ pwPublishDocs \in BOOLEAN
  /\ pwPublishLibs \in BOOLEAN
  /\ pwChanged \in SUBSET ChangedFiles
  /\ InitPublishWorkflowState

NextPublishWorkflow ==
  \/ PwSelectChannel
  \/ PwPlan
  \/ PwPublishCharm
  \/ PwDraftPublishDocs
  \/ PwReleaseCharmLibs

SpecPublishWorkflow == InitPublishWorkflow /\ [][NextPublishWorkflow]_vars

----------------------------------------------------------------------------
(* Claims about the Plan Generator and getPlan *)

PlanDone == pgPc = "done"

(* a descriptor located under the tests/ directory of the working directory *)
UnderTests(f) == f.dir # <<>> /\ f.dir[1] = "tests"

EntriesOfType(build, t) == SelectSeq(build, LAMBDA e : e.type = t)

FilesOfKind(k) == {f \in fsFiles : f.kind = k}

(* the entry the plan holds for descriptor f, if any *)
HasEntryFor(f) ==
  \E i \in 1..Len(planOutput.build) :
    /\ planOutput.build[i].type \in {"charm", "rock", "docker-image"}
    /\ planOutput.build[i].source_file = SourceFile(f)

HasFileEntryFor(f) ==
  \E i \in 1..Len(planOutput.build) :
    /\ planOutput.build[i].type = "file"
    /\ planOutput.build[i].source_directory = PathDirname(SourceFile(f))

(* C6: a plan uploaded with identifier X and working directory W is the plan
   getPlan returns when asked for the same run, X and W *)
C6_RoundTrip ==
  (PlanDone /\ gpPc \in {"returned", "thrown"}
     /\ gpIdentifier = identifierIn /\ gpWorkingDir = workingDirIn)
  => (gpPc = "returned" /\ gpPlan = planOutput)

(* C7: no two build entries of a produced plan share their output name *)
C7_UniqueOutputs ==
  PlanDone =>
    \A i, j \in 1..Len(planOutput.build) :
      i # j => planOutput.build[i].output # planOutput.build[j].output

(* C8 as stated: no descriptor under tests/ has an entry in the plan *)
C8_NoEntryUnderTests ==
  PlanDone =>
    \A f \in fsFiles : UnderTests(f) => ~HasEntryFor(f)

(* C8 amended: a charmcraft.yaml under tests/ has neither a charm entry nor
   a file entry in the plan, while a rockcraft.yaml or Dockerfile under
   tests/ has its entry *)
C8_NoCharmUnderTests ==
  PlanDone =>
    \A f \in fsFiles :
      UnderTests(f) =>
        IF f.kind = "charmcraft"
        THEN ~HasEntryFor(f) /\ ~HasFileEntryFor(f)
        ELSE HasEntryFor(f)

C8_Witness ==
  /\ PlanDone
  /\ \E f, g \in fsFiles :
       /\ UnderTests(f) /\ f.kind = "charmcraft" /\ f.resources.present
       /\ UnderTests(g) /\ g.kind # "charmcraft"

(* C9: with no descriptor under tests/, the plan planBuild returns holds as
   many charm, rock and docker-image entries as there are charmcraft.yaml,
   rockcraft.yaml and Dockerfile files, and every other entry is a file
   entry *)
C9_EntryCounts ==
  (PlanDone /\ \A f \in fsFiles : ~UnderTests(f)) =>
    /\ Len(EntriesOfType(planOutput.build, "charm"))
         = Cardinality(FilesOfKind("charmcraft"))
    /\ Len(EntriesOfType(planOutput.build, "rock"))
         = Cardinality(FilesOfKind("rockcraft"))
    /\ Len(EntriesOfType(planOutput.build, "docker-image"))
         = Cardinality(FilesOfKind("dockerfile"))
    /\ Len(planOutput.build)
         = Cardinality(fsFiles)
           + Len(EntriesOfType(planOutput.build, "file"))

C9_Witness ==
  /\ PlanDone
  /\ \A f \in fsFiles : ~UnderTests(f)
  /\ Cardinality(fsFiles) = MaxFiles
  /\ \E f \in fsFiles : f.dir = <<"sub">>
  /\ Cardinality({f.kind : f \in fsFiles}) > 1

(* a descriptor the generator discovers: charmcraft.yaml outside tests/,
   every rockcraft.yaml *)
Discovered(f) ==
  \/ f.kind = "charmcraft" /\ ~UnderTests(f)
  \/ f.kind = "rockcraft"

HasResolvableName(f) ==
  \/ f.name # Undefined
  \/ f.kind = "charmcraft" /\ f.meta.exists /\ f.meta.name # Undefined

(* C10: a discovered charm or rock descriptor without resolvable name makes
   plan generation fail; no plan is uploaded *)
C10_FailsWithoutName ==
  (\E f \in fsFiles : Discovered(f) /\ ~HasResolvableName(f))
  => (pgPc # "done" /\ artifacts = {})

(* the resources declared for a charm: those of charmcraft.yaml and those
   of its metadata.yaml *)
DeclaredResources(f) ==
  Range(f.resources.items) \cup Range(f.meta.resources.items)

(* the `resources` mapping the planner reads: the one of metadata.yaml when
   that file has the key, else the one of charmcraft.yaml *)
ReadResources(f) ==
  IF f.meta.exists /\ f.meta.resources.present
  THEN Range(f.meta.resources.items)
  ELSE Range(f.resources.items)

(* the file entries the plan holds for resource r of charm descriptor f *)
EntriesForResource(f, r) ==
  SelectSeq(planOutput.build,
            LAMBDA e : /\ e.type = "file"
                       /\ e.name = r.rname
                       /\ e.source_directory = PathDirname(SourceFile(f)))

IsFileResource(r) == r.type = "file" /\ r.filename # Undefined

(* exactly one file entry for r, with the fields the claim lists *)
OneFileEntry(f, r) ==
  /\ Len(EntriesForResource(f, r)) = 1
  /\ EntriesForResource(f, r)[1].build_target = r.filename
  /\ EntriesForResource(f, r)[1].source_file
       = <<"build-">> \o r.rname \o <<".sh">>

StartsWithLocal(r) ==
  r.description # Undefined /\ StartsWith(r.description, <<"(local)">>)

StartsWithLocalTrimmed(r) ==
  r.description # Undefined
  /\ StartsWith(TrimStart(r.description), <<"(local)">>)

PlannedCharms == {f \in fsFiles : f.kind = "charmcraft" /\ ~UnderTests(f)}

(* C11 as stated: every declared resource of a planned charm descriptor has
   exactly one file entry when it is a file resource with a filename whose
   description does not start with (local), and no entry otherwise *)
C11_FileEntryPerResource ==
  PlanDone =>
    \A f \in PlannedCharms :
      \A r \in DeclaredResources(f) :
        IF IsFileResource(r) /\ ~StartsWithLocal(r)
        THEN OneFileEntry(f, r)
        ELSE EntriesForResource(f, r) = <<>>

(* C11 amended: the resources are those of the mapping the planner reads,
   and a description is local when it starts with (local) after its leading
   white space is removed; a resource of a charmcraft.yaml whose
   metadata.yaml has a `resources` key has no entry *)
C11_FileEntryPerReadResource ==
  PlanDone =>
    \A f \in PlannedCharms :
      /\ \A r \in ReadResources(f) :
           IF IsFileResource(r) /\ ~StartsWithLocalTrimmed(r)
           THEN OneFileEntry(f, r)
           ELSE EntriesForResource(f, r) = <<>>
      /\ \A r \in DeclaredResources(f) \ ReadResources(f) :
           EntriesForResource(f, r) = <<>>

C11_Witness ==
  /\ PlanDone
  /\ \E f \in PlannedCharms :
       /\ \E r \in ReadResources(f) :
            IsFileResource(r) /\ ~StartsWithLocalTrimmed(r)
            /\ OneFileEntry(f, r)
       /\ \E r \in ReadResources(f) :
            IsFileResource(r) /\ StartsWithLocalTrimmed(r)
       /\ DeclaredResources(f) \ ReadResources(f) # {}
  /\ \E f \in PlannedCharms : \E r \in ReadResources(f) :
       IsFileResource(r) /\ StartsWithLocalTrimmed(r) /\ ~StartsWithLocal(r)
  /\ \E f \in PlannedCharms : \E r \in ReadResources(f) : ~IsFileResource(r)

ImageEntries ==
  SelectSeq(planOutput.build, LAMBDA e : e.type \in {"rock", "docker-image"})

AllImageEntries(ot) ==
  \A i \in 1..Len(ImageEntries) : ImageEntries[i].output_type = ot

(* the event is a pull request whose head repository has another owner *)
ForkPullRequest == eventName = "pull_request" /\ headOwner # RepoOwner

(* C12: upload-image `artifact` gives output_type file and `registry` gives
   registry for every rock and docker-image entry; an empty upload-image
   gives file exactly for a pull request from a fork and registry otherwise;
   any other value fails the action and no plan is produced *)
C12_ImageOutputType ==
  /\ (PlanDone /\ uploadImageIn = <<"artifact">>) => AllImageEntries("file")
  /\ (PlanDone /\ uploadImageIn = <<"registry">>)
       => AllImageEntries("registry")
  /\ (PlanDone /\ uploadImageIn = <<>>)
       => AllImageEntries(IF ForkPullRequest THEN "file" ELSE "registry")
  /\ uploadImageIn \notin {<<>>, <<"artifact">>, <<"registry">>}
       => /\ pgPc \in {"start", "failed"}
          /\ artifacts = {}
          /\ planOutput = NoPlan

C12_Witness ==
  /\ PlanDone
  /\ uploadImageIn = <<>>
  /\ ForkPullRequest
  /\ ImageEntries # <<>>
  /\ AllImageEntries("file")

----------------------------------------------------------------------------
(* Claims about findWorkflowRunId *)

MatchingRuns == {i \in 1..Len(fwRuns) : fwRuns[i].tree = fwTree}

(* the workflow was found and every page of the run listing came back with
   status 200: the runs of fwRuns are the listed runs *)
Listed ==
  /\ fwWorkflowStatus = 200
  /\ fwBadPage \notin 1..PageCount

FindFinished == fwPc \in {"returned", "thrown"}

(* C4: without explicit run id, when exactly one listed run has the current
   tree id findWorkflowRunId returns that run's id, and when no listed run
   has it findWorkflowRunId throws *)
C4_UniqueMatchReturned ==
  (FindFinished /\ fwRunIdIn = <<>> /\ Listed) =>
    /\ Cardinality(MatchingRuns) = 1 =>
         /\ fwPc = "returned"
         /\ \E i \in MatchingRuns : fwResult = RunId(i)
    /\ MatchingRuns = {} => fwPc = "thrown"

C4_Witness ==
  /\ fwPc = "returned"
  /\ fwRunIdIn = <<>>
  /\ Listed
  /\ Cardinality(MatchingRuns) = 1
  /\ Len(fwRuns) = MaxRuns
  /\ fwPage > 1
  /\ fwRuns[1].tree = "U"

(* C5: without explicit run id, the returned id belongs to a run that
   concluded successfully *)
C5_ReturnedRunSucceeded ==
  (fwPc = "returned" /\ fwRunIdIn = <<>>) =>
    \E i \in 1..Len(fwRuns) :
      fwResult = RunId(i) /\ fwRuns[i].conclusion = "success"

----------------------------------------------------------------------------
(* Claims about the Publisher *)

RequiredImages == Range(getCharmResources.images)

RequiredFiles == Range(getCharmResources.files)

Required == RequiredImages \cup RequiredFiles

(* the name of build entry e maps to required resource r: through the
   resource-mapping table, or directly when the table has no entry for it *)
MapsTo(e, r) ==
  \/ /\ e.type \in {"rock", "docker-image"}
     /\ r \in RequiredImages
     /\ r = (IF e.name \in DOMAIN pbMapping THEN pbMapping[e.name]
             ELSE e.name \o ImageSuffix)
  \/ /\ e.type = "file"
     /\ r \in RequiredFiles
     /\ r = (IF e.name \in DOMAIN pbMapping THEN pbMapping[e.name]
             ELSE e.name)

(* the required resources the plan has an upload candidate for *)
Candidates == {r \in Required : \E e \in Range(pbBuild) : MapsTo(e, r)}

UploadCommands == SelectSeq(pbCmds, LAMBDA c : c.cmd = "upload-resource")

(* what entry e's artifact holds for upload: its one file or image *)
Uploadable(e) == Len(ImageCandidates(e)) = 1

ArtifactOf(e) ==
  IF e.type = "file" THEN pbManifests[e.output].files[1] ELSE ImageOf(e)

(* C1: with fewer upload candidates than required resources the publish
   run does not succeed and runs no charmcraft upload-resource *)
C1_FewerCandidatesFails ==
  Cardinality(Candidates) < Cardinality(Required)
  => (pbPc # "done" /\ UploadCommands = <<>>)

(* C2: after a publish run, every required resource that a build entry
   maps to has been uploaded from the artifact of such an entry *)
C2_MappedEntryUploaded ==
  pbPc = "done" =>
    \A r \in Required :
      (\E e \in Range(pbBuild) : MapsTo(e, r)) =>
        \E e \in Range(pbBuild) :
          /\ MapsTo(e, r)
          /\ Uploadable(e)
          /\ SeqHas(UploadCommands,
                    Cmd("upload-resource", r, ArtifactOf(e)))

MapsReturned ==
  pbPc \in {"charms", "aggregate", "upload-files", "upload-images",
            "outputs", "done"}

(* C3: when every required resource has a build entry with an uploadable
   candidate, the maps of getImages and getFiles hold one entry per
   required resource *)
C3_OneEntryPerResource ==
  (/\ MapsReturned
   /\ \A r \in Required :
        \E e \in Range(pbBuild) : MapsTo(e, r) /\ Uploadable(e))
  => /\ Len(pbImages) + Len(pbFiles) = Cardinality(Required)
     /\ \A r \in Required : MapHas(pbImages, r) \/ MapHas(pbFiles, r)

----------------------------------------------------------------------------
(* Claims about sanitizeArtifactName *)

(* C13: sanitizeArtifactName is idempotent:
   sanitizeArtifactName(sanitizeArtifactName(s)) = sanitizeArtifactName(s) *)
C13_Idempotent == saPc = "twice" => saTwice = saOnce

C13_Witness ==
  /\ saPc = "twice"
  /\ saOnce # saName
  /\ \E i \in 1..Len(saName) : saName[i] = ":"
  /\ \E i \in 1..Len(saName) : saName[i] = "-"

----------------------------------------------------------------------------
(* Claims about the rock cache key *)

(* day 0 is a Monday: the ISO week of a day is its block of seven days *)
SameIsoWeek(d1, d2) == d1 \div 7 = d2 \div 7

(* the key without the value of its used-by parameter *)
WithoutUsedBy(key) ==
  LET i == CHOOSE k \in 1..Len(key) : key[k] = "used-by"
      j == CHOOSE k \in (i + 1)..Len(key) :
             key[k] = "&" /\ \A l \in (i + 1)..(k - 1) : key[l] # "&"
  IN SubSeq(key, 1, i + 1) \o SubSeq(key, j, Len(key))

(* C14: for one source file, architecture and content hash, the keys of two
   build dates are equal exactly when the dates lie in the same ISO week, and
   keys of different ISO weeks differ in the used-by component only *)
C14_SameKeyIffSameIsoWeek ==
  ckPc = 2 =>
    /\ (ckKey1 = ckKey2) <=> SameIsoWeek(ckDate1, ckDate2)
    /\ WithoutUsedBy(ckKey1) = WithoutUsedBy(ckKey2)

----------------------------------------------------------------------------
(* Claims about the Builder *)

EventsOf(ops) == SelectSeq(bdLog, LAMBDA e : e.op \in ops)

(* the reads and writes of the rock cache: the calls under the rock's key *)
RockCacheEvents ==
  SelectSeq(bdLog, LAMBDA e : /\ e.op \in {"restoreCache", "saveCache"}
                              /\ e.what = RockKey(bdPlan))

(* restoreRock restored a manifest *)
RockRestored ==
  \E i \in 1..Len(bdLog) :
    /\ bdLog[i].op = "restoreCache"
    /\ bdLog[i].what = RockKey(bdPlan)
    /\ bdLog[i].ok

(* C15: after restoreRock restored a manifest for a registry-type rock, the
   build has made one uploadArtifact call, named plan.output and holding the
   restored manifest, and has run no shell command (no rockcraft
   installation, no pack, no push) and no cache save; for a rock of output
   type file or with a charmcraft.yaml in its source directory the rock
   cache is neither read nor written *)
C15_CacheHitSkipsBuild ==
  /\ RockRestored =>
       /\ bdPlan.type = "rock" /\ bdPlan.output_type = "registry"
       /\ bdUploads = <<[name |-> bdPlan.output,
                          manifest |-> CachedManifest(bdPlan),
                          files |-> <<ManifestFile>>]>>
       /\ EventsOf({"exec", "rename", "saveCache"}) = <<>>
       /\ bdPc \in {"done", "failed"}
  /\ (bdPlan.type = "rock" /\ (bdPlan.output_type = "file" \/ bdPaas))
       => RockCacheEvents = <<>>

C15_Witness ==
  /\ RockRestored
  /\ bdPc = "done"
  /\ bdInstallMode = "repository"
  /\ Len(bdUploads) = 1

FailedExec(i) == bdLog[i].op = "exec" /\ ~bdLog[i].ok

(* C16: once a shell invocation has failed, the action is marked failed,
   the same invocation is not run again, and no uploadArtifact call follows
   it *)
C16_FailureStopsBuild ==
  \A i \in 1..Len(bdLog) :
    FailedExec(i) =>
      /\ bdPc = "failed"
      /\ bdError # ""
      /\ \A j \in (i + 1)..Len(bdLog) :
           /\ ~(bdLog[j].op = "exec" /\ bdLog[j].what = bdLog[i].what)
           /\ bdLog[j].op # "uploadArtifact"

C16_Witness ==
  /\ bdPc = "failed"
  /\ bdPlan.type = "rock"
  /\ bdPlan.output_type = "registry"
  /\ Len(bdLog) > 3
  /\ FailedExec(Len(bdLog))
  /\ bdUploads = <<>>

HasFiles(manifest) == manifest.files # Undefined

HasImages(manifest) == manifest.images # Undefined

(* the key the claim assigns to the manifest of a build entry *)
FilesExpected(plan) ==
  plan.type \in {"charm", "file"} \/ plan.output_type = "file"

ImagesExpected(plan) ==
  plan.type \in {"rock", "docker-image"} /\ plan.output_type = "registry"

OneKeyAsExpected(manifest) ==
  /\ HasFiles(manifest) # HasImages(manifest)
  /\ HasFiles(manifest) <=> FilesExpected(bdPlan)
  /\ HasImages(manifest) <=> ImagesExpected(bdPlan)

(* C17: the manifest the Builder has written, and every manifest it has
   uploaded, holds exactly one of the keys files and images: files for charm
   and file entries and for output type file, images for rock and
   docker-image entries of output type registry *)
C17_OneManifestKey ==
  /\ bdManifest # NoManifest => OneKeyAsExpected(bdManifest)
  /\ \A i \in 1..Len(bdUploads) : OneKeyAsExpected(bdUploads[i].manifest)

C17_Witness ==
  /\ bdPc = "done"
  /\ bdPlan.type = "docker-image"
  /\ bdPlan.output_type = "registry"
  /\ Len(bdUploads) = 1
  /\ HasImages(bdUploads[1].manifest)

----------------------------------------------------------------------------
(* Claims about the Scan Planner *)

(* the files, then the images, the manifest of one build entry lists *)
ListedItems(build) ==
  LET manifest == scManifests[build.output]
      files == IF manifest.files # Undefined THEN manifest.files ELSE <<>>
      images == IF manifest.images # Undefined THEN manifest.images ELSE <<>>
  IN [k \in 1..Len(files) |->
        [kind |-> "file", build |-> build, ref |-> files[k]]]
     \o [k \in 1..Len(images) |->
           [kind |-> "image", build |-> build, ref |-> images[k]]]

(* the listed items of the rock and docker-image entries, in plan order *)
RECURSIVE ItemsToScan(_)
ItemsToScan(builds) ==
  IF builds = <<>> THEN <<>>
  ELSE (IF Head(builds).type \in {"rock", "docker-image"}
        THEN ListedItems(Head(builds)) ELSE <<>>)
       \o ItemsToScan(Tail(builds))

ScanMatches(scan, item) ==
  IF item.kind = "file"
  THEN /\ scan.artifact = item.build.output
       /\ scan.file = item.ref
       /\ scan.image = <<>>
  ELSE /\ scan.image = item.ref
       /\ scan.artifact = <<>>

(* C18: the scans output holds one entry per file and per image of the
   manifest of each rock or docker-image build entry, in plan order, and
   none for charm and file entries; a file entry carries the artifact name
   and an empty image, an image entry the image and an empty artifact *)
C18_OneScanPerListedItem ==
  scPc = "done" =>
    /\ Len(scOutput) = Len(ItemsToScan(scPlan))
    /\ \A k \in 1..Len(scOutput) :
         ScanMatches(scOutput[k], ItemsToScan(scPlan)[k])

C18_Witness ==
  /\ scPc = "done"
  /\ Len(scOutput) >= 3
  /\ \E k \in 1..Len(scOutput) : scOutput[k].image = <<>>
  /\ \E k \in 1..Len(scOutput) : scOutput[k].artifact = <<>>

(* the build directory of the entry the loop is at *)
BuildDir == Resolve(scPlan[scIdx].dir)

NoDir == <<"#none">>

(* the nearest directory with a .trivyignore, walking up from dir, dir
   itself examined first *)
RECURSIVE NearestFrom(_)
NearestFrom(dir) ==
  IF dir \in DOMAIN scTrivy THEN dir
  ELSE IF PathDirname(dir) = dir THEN NoDir
  ELSE NearestFrom(PathDirname(dir))

Merged(content) ==
  IF content = <<>> THEN CommonIgnorePatterns
  ELSE content \o <<EOL>> \o CommonIgnorePatterns

(* the step changes the .trivyignore of directory t, and no other, into its
   content merged with the shared list *)
MergedInto(t) ==
  /\ DOMAIN scTrivy' = DOMAIN scTrivy \cup {t}
  /\ scTrivy'[t] = Merged(IF t \in DOMAIN scTrivy THEN scTrivy[t] ELSE <<>>)
  /\ \A x \in DOMAIN scTrivy \ {t} : scTrivy'[x] = scTrivy[x]

(* a step of the loop that returns from ConcatIgnores *)
ConcatReturns ==
  scVariant = "ignores" /\ scPc = "loop" /\ scPc' = "download"

(* C19 as stated: the shared list is merged into the nearest .trivyignore
   found walking up from the build directory, that directory examined
   first *)
C19_NearestFromBuildDir ==
  [][(ConcatReturns /\ NearestFrom(BuildDir) # NoDir)
       => MergedInto(NearestFrom(BuildDir))]_vars

(* C19 amended: the walk starts at the parent of the build directory; the
   build directory's own .trivyignore is merged into, or created, only when
   no ancestor has one; the call fails without writing when that file is to
   be created in a directory that does not exist *)
C19_NearestFromParent ==
  [][/\ ConcatReturns =>
          IF NearestFrom(PathDirname(BuildDir)) # NoDir
          THEN MergedInto(NearestFrom(PathDirname(BuildDir)))
          ELSE MergedInto(BuildDir)
      /\ (scVariant = "ignores" /\ scPc = "loop" /\ scPc' = "failed")
          => /\ NearestFrom(PathDirname(BuildDir)) = NoDir
             /\ BuildDir \notin scDirs
             /\ scTrivy' = scTrivy]_vars

C19_Witness ==
  /\ scVariant = "ignores"
  /\ scPc = "download"
  /\ BuildDir \in DOMAIN scTrivy
  /\ scTrivy[BuildDir] = OwnIgnores(BuildDir)
  /\ PathDirname(BuildDir) \in DOMAIN scTrivy
  /\ scTrivy[PathDirname(BuildDir)]
       = Merged(OwnIgnores(PathDirname(BuildDir)))

----------------------------------------------------------------------------
(* Claims about the integration helper *)

(* the failed downloadArtifact calls the log of calls ends with *)
RECURSIVE TrailingFailures(_)
TrailingFailures(downloads) ==
  IF downloads = <<>> \/ downloads[Len(downloads)].ok THEN 0
  ELSE 1 + TrailingFailures(SubSeq(downloads, 1, Len(downloads) - 1))

(* C20: a failing artifact download is retried and given up, failing the
   action, after exactly 6 attempts; a download that succeeds on one of
   these attempts lets the run continue *)
C20_DownloadRetried ==
  /\ igError = "download failed" => TrailingFailures(igDownloads) = 6
  /\ (igPc \in {"loop", "copy", "done"} /\ igDownloads # <<>>)
       => igDownloads[Len(igDownloads)].ok

(* the artifacts the manifest of one build entry lists: its files, then its
   images *)
ProducedBy(build) ==
  LET manifest == igManifests[build.output]
      files == IF manifest.files # Undefined THEN manifest.files ELSE <<>>
      images == IF manifest.images # Undefined THEN manifest.images ELSE <<>>
  IN [k \in 1..Len(files) |->
        [kind |-> "file", build |-> build, ref |-> files[k]]]
     \o [k \in 1..Len(images) |->
           [kind |-> "image", build |-> build, ref |-> images[k]]]

RECURSIVE ProducedArtifacts(_)
ProducedArtifacts(builds) ==
  IF builds = <<>> THEN <<>>
  ELSE ProducedBy(Head(builds)) \o ProducedArtifacts(Tail(builds))

(* the argument the integration test is to get for one produced artifact *)
ArgMatches(arg, item) ==
  LET name == item.build.name
  IN CASE item.build.type = "charm" ->
            arg = <<"--", "charm-file", "=./">> \o item.ref
       [] item.build.type = "file" ->
            arg = <<"--">> \o name \o <<"-resource", "=./">> \o item.ref
       [] item.kind = "image" ->
            arg = <<"--">> \o name \o <<"-image=">> \o item.ref
       [] OTHER ->
            StartsWith(arg, <<"--">> \o name
                              \o <<"-image=", "localhost:32000", "/">>
                              \o name \o <<":">>)

(* C21: the args output holds, in plan order, exactly one argument per
   produced artifact: --charm-file=./<file> per file of a charm entry,
   --<resource-name>-resource=./<file> per file of a file entry and
   --<name>-image=<image reference> per file or image of a rock or
   docker-image entry *)
C21_OneArgPerArtifact ==
  igPc = "done" =>
    /\ Len(igArgs) = Len(ProducedArtifacts(igPlan))
    /\ \A k \in 1..Len(igArgs) :
         ArgMatches(igArgs[k], ProducedArtifacts(igPlan)[k])
    /\ igOutput = JoinSpace(igArgs)

C21_Witness ==
  /\ igPc = "done"
  /\ Len(igArgs) >= 3
  /\ \E k \in 1..Len(igPlan) : igPlan[k].type = "file"
  /\ \E k \in 1..Len(igPlan) : igPlan[k].type = "rock"

(* C27: no build artifact is downloaded until waitBuild has returned, and
   none at all when waitBuild threw because a Build job did not succeed *)
C27_DownloadAfterWaitBuild ==
  /\ igDownloads # <<>> => wbPc = "returned"
  /\ wbPc = "thrown" => igDownloads = <<>>

----------------------------------------------------------------------------
(* Claims about getPlan on a store of several plans *)

(* the artifact whose plan getPlan returned *)
ReturnedArtifact == Head(gpQueue)

(* the name ends with [__identifier]__plan *)
NamedForIdentifier(a) ==
  EndsWith(a.name,
           (IF gpIdentifier # <<>> THEN US \o gpIdentifier ELSE <<>>)
             \o US \o <<"plan">>)

(* the plan's working directory is ., the requested one, or an ancestor of
   it *)
DirectoryFits(a) ==
  LET planned == a.plan.working_directory
      requested == normalizePath(gpWorkingDir)
  IN \/ planned = <<".">>
     \/ requested = normalizePath(planned)
     \/ StartsWith(requested, normalizePath(planned) \o <<"/">>)

Eligible == {a \in artifacts : NamedForIdentifier(a) /\ DirectoryFits(a)}

(* C24: getPlan returns the plan of the eligible artifact with the greatest
   name, and throws when no artifact is eligible *)
C24_GreatestEligibleName ==
  /\ gpPc = "returned" =>
       /\ ReturnedArtifact \in Eligible
       /\ gpPlan = ReturnedArtifact.plan
       /\ \A b \in Eligible :
            b.name = ReturnedArtifact.name
              \/ StrLess(b.name, ReturnedArtifact.name)
  /\ gpPc = "thrown" => Eligible = {}

C24_Witness ==
  /\ gpPc = "returned"
  /\ Cardinality(Eligible) >= 2

(* C25: the plan getPlan returns was uploaded by a Plan Generator run whose
   identifier input was the requested identifier *)
C25_SameIdentifier ==
  gpPc = "returned" =>
    \E r \in rsRuns : /\ PlanArtifactOf(r) = ReturnedArtifact
                       /\ r.identifier = gpIdentifier

----------------------------------------------------------------------------
(* Claims about the rock cache between two builds *)

(* C26: for a cache-eligible rock, the first build saves the manifest under
   the key the second build of the unchanged source tree looks up in the
   same week, so the second build restores the manifest *)
C26_SecondBuildRestores ==
  (/\ rcPc = "done"
   /\ CacheableRock(rcPlan, rcPaas)
   /\ SameIsoWeek(rcKeys[1].day, rcKeys[3].day))
    => /\ rcKeys[2].op = "saveCache"
       /\ rcKeys[3].op = "restoreCache"
       /\ rcKeys[2].key = rcKeys[3].key
       /\ rcHit

----------------------------------------------------------------------------
(* Claims about the parallel pushes of a registry rock *)

(* the position in the log of the skopeo copy of rock file f that ended
   with result ok, 0 when there is none *)
PushAt(f, ok) ==
  LET at == {j \in 1..Len(bdLog) :
               bdLog[j] = Event("exec", <<"skopeo copy">> \o f, ok)}
  IN IF at = {} THEN 0 ELSE CHOOSE j \in at : TRUE

(* a registry rock that is built, not restored from the cache *)
RegistryRockBuilt ==
  /\ bdPlan.type = "rock"
  /\ bdPlan.output_type = "registry"
  /\ ~RockRestored

BuiltRocks == ProducedFiles(bdPlan, bdProduced)

(* the manifest is cached or uploaded by the j-th call of the log *)
ManifestLeaves(j) ==
  \/ bdLog[j].op = "uploadArtifact"
  \/ bdLog[j].op = "saveCache" /\ bdLog[j].what = RockKey(bdPlan)

(* C28: the manifest of a registry rock is written, cached and uploaded
   only after every push has succeeded; its images list holds one reference
   per built .rock file, in the order of the rock files; after a failed
   push no manifest is written, cached or uploaded *)
C28_ManifestAfterAllPushes ==
  RegistryRockBuilt =>
    /\ bdManifest # NoManifest =>
         /\ \A i \in 1..Len(BuiltRocks) :
              /\ PushAt(BuiltRocks[i], TRUE) # 0
              /\ \A j \in 1..Len(bdLog) :
                   ManifestLeaves(j) => PushAt(BuiltRocks[i], TRUE) < j
         /\ Len(bdManifest.images) = Len(BuiltRocks)
         /\ \A i \in 1..Len(BuiltRocks) :
              bdManifest.images[i] = RockImage(bdPlan, BuiltRocks[i])
    /\ (\E i \in 1..Len(BuiltRocks) : PushAt(BuiltRocks[i], FALSE) # 0)
         => /\ bdManifest = NoManifest
            /\ bdUploads = <<>>
            /\ \A j \in 1..Len(bdLog) : ~ManifestLeaves(j)

C28_Witness ==
  /\ RegistryRockBuilt
  /\ bdPc = "done"
  /\ Len(BuiltRocks) = 2
  /\ Len(bdUploads) = 1
  /\ PushAt(BuiltRocks[2], TRUE) # 0
  /\ PushAt(BuiltRocks[2], TRUE) < PushAt(BuiltRocks[1], TRUE)

----------------------------------------------------------------------------
(* Claims about the Publisher's registry login and charm selection *)

CommandsAt(c) == {i \in 1..Len(pbCmds) : pbCmds[i].cmd = c}

(* a build entry getImages selects: an image whose resource is required *)
SelectedImage(e) ==
  /\ e.type \in {"rock", "docker-image"}
  /\ SeqHas(getCharmResources.images, ImageResourceName(e))

(* C29: docker login is run at most once, only if a selected build entry has
   output type registry, and before the first docker pull *)
C29_LoginOnceBeforePull ==
  /\ Cardinality(CommandsAt("docker-login")) <= 1
  /\ CommandsAt("docker-login") # {} =>
       \E k \in 1..Len(pbBuild) :
         SelectedImage(pbBuild[k]) /\ pbBuild[k].output_type = "registry"
  /\ \A j \in CommandsAt("docker-pull") :
       \E i \in CommandsAt("docker-login") : i < j

C29_Witness ==
  /\ Cardinality(CommandsAt("docker-login")) = 1
  /\ Cardinality(CommandsAt("docker-pull")) = 2

(* the charm entries whose source directory is the working directory, or
   its charm subdirectory when that holds a charmcraft.yaml *)
MatchingCharms ==
  LET dir == IF pbHasCharmSub THEN PathJoin(pbWorkingDir, <<"charm">>)
             ELSE pbWorkingDir
  IN {k \in 1..Len(pbBuild) :
        /\ pbBuild[k].type = "charm"
        /\ normalizePath(pbBuild[k].source_directory) = normalizePath(dir)}

PastCharmSelection ==
  pbPc \in {"aggregate", "upload-files", "upload-images", "outputs", "done"}

(* C30: publish goes on to the uploads only when exactly one charm entry
   matches; with none or several it fails and no charmcraft upload-resource
   has been run *)
C30_OneMatchingCharm ==
  /\ PastCharmSelection => Cardinality(MatchingCharms) = 1
  /\ Cardinality(MatchingCharms) # 1 => CommandsAt("upload-resource") = {}

C30_Witness ==
  /\ pbPc = "done"
  /\ Cardinality(MatchingCharms) = 1
  /\ Len(pbBuild) = 2
  /\ CommandsAt("upload-resource") # {}

----------------------------------------------------------------------------
(* Claims about the workflows *)

(* a job of the build matrix failed *)
BuildJobFailed == \E i \in 1..Len(itBuildJobs) : itBuildJobs[i] = "failure"

(* C22: in the integration test workflow, once a job of the build matrix
   has failed, the required_status_checks job never concludes with
   success *)
C22_FailedBuildFailsRequiredChecks ==
  BuildJobFailed => itResult["required_status_checks"] # "success"

(* C23: in the publish workflow, when force-publish is true and the plan
   job succeeded, its has-code-changes output is 'True' and the
   publish-charm job is not skipped, whatever files changed *)
C23_ForcePublishRuns ==
  pwForcePublish /\ pwResult["plan"] = "success" =>
    /\ pwHasCodeChanges = "True"
    /\ pwResult["publish-charm"] # "skipped"

====
